---- MODULE Spec2Model ----
(***************************************************************************)
(* Model of the lattice signature scheme: the NTT arithmetic of            *)
(* utils/ntt.py, key generation of keygen/keygen.py, sign_message of       *)
(* signing/sign.py and verify_signature of verification/verify.py with     *)
(* the checks of security/lattice_security.py and                          *)
(* security/fiat_shamir_security.py that gate it.                          *)
(*                                                                         *)
(* Python lists are functions over 0..len-1, dicts are functions over      *)
(* their key set, None is an absent key.                                   *)
(***************************************************************************)
EXTENDS Integers, FiniteSets, Sequences, TLC

\* ------------------------------------------------------------------------
\* Parameters (utils/params.py).  The ring degree is scaled down from 2^9;
\* the modulus and the root are the program's.
\* ------------------------------------------------------------------------
LogN == 4
N == 2 ^ LogN
q == 12289
root_of_unity == 11

\* generate_advanced_keys calls itself again without a counter; the runs
\* follow the recursion down to this many discarded attempts.
MaxRestarts == 3

Branches == {"00", "01", "10", "11"}

LenOf(a) == Cardinality(DOMAIN a)

\* A list object: its entries are computed when the list is built, not
\* each time one is read (the comparison has the list evaluated once).
Stored(a) == IF a = a THEN a ELSE a

\* ------------------------------------------------------------------------
\* utils/ntt.py
\* ------------------------------------------------------------------------
RECURSIVE BitAnd(_, _)
BitAnd(x, y) ==
    IF x = 0 \/ y = 0 THEN 0
    ELSE (x % 2) * (y % 2) + 2 * BitAnd(x \div 2, y \div 2)

RECURSIVE BitXor(_, _)
BitXor(x, y) ==
    IF x = 0 THEN y
    ELSE IF y = 0 THEN x
    ELSE ((x + y) % 2) + 2 * BitXor(x \div 2, y \div 2)

\* while j & bit: j ^= bit; bit >>= 1   followed by   j ^= bit
RECURSIVE RevInner(_, _)
RevInner(j, bit) ==
    IF BitAnd(j, bit) # 0 THEN RevInner(BitXor(j, bit), bit \div 2)
    ELSE BitXor(j, bit)

\* j after k more passes of the loop body (the while loop and j ^= bit),
\* the passes taken in two runs of about k/2.
RECURSIVE RevSteps(_, _, _)
RevSteps(j, k, n) ==
    IF k = 0 THEN j
    ELSE IF k = 1 THEN RevInner(j, n \div 2)
    ELSE LET half == RevSteps(j, k \div 2, n)
         IN  IF half >= 0 THEN RevSteps(half, k - k \div 2, n) ELSE half

\* The value of j after the i-th pass of the loop of bit_reverse_numpy.
RevIndex(i, n) == RevSteps(0, i, n)

\* for i in range(1, n): ...; if i < j: result[i], result[j] = result[j], result[i]
RECURSIVE BitRevLoop(_, _, _)
BitRevLoop(result, i, n) ==
    IF i >= n THEN result
    ELSE LET j == RevIndex(i, n)
         IN  BitRevLoop(IF i < j
                        THEN [result EXCEPT ![i] = result[j], ![j] = result[i]]
                        ELSE result,
                        i + 1, n)

\* When i -> j is an involution of 0..n-1 (every power-of-two length) the
\* swaps of the loop, one per pair i < j, leave a[j] at position i.
bit_reverse_numpy(a) ==
    LET n == LenOf(a)
        J == [i \in 0..(n - 1) |-> RevIndex(i, n)]
    IN  IF \A i \in 0..(n - 1) : J[i] \in 0..(n - 1) /\ J[J[i]] = i
        THEN Stored([i \in 0..(n - 1) |-> a[J[i]]])
        ELSE BitRevLoop(a, 1, n)

\* (w * x) % q on int64; the operand is reduced first so that the product
\* stays inside 32-bit integers, the value is the same.
MulMod(w, x) == (w * (x % q)) % q

\* w after j passes of  w = (w * root_of_unity) % q  from w = 1, the
\* passes taken in two runs of about j/2.
RECURSIVE RootPow(_)
RootPow(j) ==
    IF j = 0 THEN 1
    ELSE IF j = 1 THEN root_of_unity % q
    ELSE MulMod(RootPow(j \div 2), RootPow(j - j \div 2))

\* One pass of  for i in range(0, N, 2*m): for j in range(m): ...  The
\* butterflies of a pass touch disjoint pairs (i+j, i+j+m), so the pass is
\* given per index; entries beyond N are not touched.
Stage(a, m) ==
    Stored([idx \in DOMAIN a |->
        IF idx >= N THEN a[idx]
        ELSE LET j == idx % (2 * m)
             IN  IF j < m
                 THEN (a[idx] + MulMod(RootPow(j), a[idx + m])) % q
                 ELSE (a[idx - m] - MulMod(RootPow(j - m), a[idx])) % q])

\* while m < N: ...; m *= 2   Each pass is finished before the next one
\* starts (b = b has the list of the pass evaluated).
RECURSIVE Stages(_, _)
Stages(a, m) ==
    IF m >= N THEN a
    ELSE LET b == Stage(a, m)
         IN  IF b = b THEN Stages(b, 2 * m) ELSE b

\* a[i + j + m] reaches index N-1: a shorter list raises IndexError
NttRaises(a) == LenOf(a) < N

ntt_numpy(a) ==
    LET b == bit_reverse_numpy(a)
    IN  IF b = b THEN Stages(b, 1) ELSE b

\* pow(x, -1, m): Invertible tells whether Python raises ValueError,
\* modinv gives the inverse when it does not
RECURSIVE ExtGcd(_, _)
ExtGcd(a, b) ==
    IF a = 0 THEN <<b, 0, 1>>
    ELSE LET r == ExtGcd(b % a, a)
         IN  <<r[1], r[3] - (b \div a) * r[2], r[2]>>

Invertible(x, m) == ExtGcd(x % m, m)[1] = 1
modinv(x, m) == ExtGcd(x % m, m)[2] % m

np_clip(x, lo, hi) == IF x < lo THEN lo ELSE IF x > hi THEN hi ELSE x

BranchBound(challenge_type) ==
    IF challenge_type = "00" THEN 1
    ELSE IF challenge_type \in {"01", "10"} THEN 2
    ELSE 3

\* a = (a * n_inv) % q, before the final reduction
intt_unreduced(a) ==
    LET r == bit_reverse_numpy(a)
        b == IF r = r THEN Stages(r, 1) ELSE r
        n_inv == modinv(N, q)
    IN  Stored([i \in DOMAIN b |-> MulMod(n_inv, b[i])])

intt_numpy_unclipped(a, challenge_type) == intt_unreduced(a)

intt_numpy(a, challenge_type) ==
    LET b == intt_unreduced(a)
        B == BranchBound(challenge_type)
    IN  Stored([i \in DOMAIN b |-> np_clip(b[i], -B, B)])

ntt(a) == ntt_numpy(a)
intt(a, challenge_type) == intt_numpy(a, challenge_type)

\* ------------------------------------------------------------------------
\* State
\* ------------------------------------------------------------------------
VARIABLES
    poly,          \* input vector of the transform under test
    branch,        \* challenge_type passed to intt
    ntt_out,       \* ntt(poly)
    intt_out,      \* intt(ntt_out, branch)
    ntt_pc,        \* "input" -> "transformed" -> "inverted"
    pc,            \* protocol position: "start", "keygen_failed", "keyed",
                   \* "signed", "verified"
    attempts,      \* frames of generate_advanced_keys entered and abandoned
    kg_error,      \* why keygen raised KeyGenerationError
    key_files,     \* files written under keys/
    private_key,
    public_key,
    signature,     \* the signature handed to the verifier
    signed_message,\* the str given to sign_message
    honest,        \* signature is sign_message's output, unchanged
    vmessage,      \* message argument of verify_signature
    vpublic_key,   \* public_key argument of verify_signature
    result,        \* what verify_signature gave back
    trapdoor,      \* one call of trapdoor_sample_advanced
    kg_params,     \* N, q, GAUSSIAN_STDDEV (in tenths) as keygen.py imports them
    commit,        \* one commitment: its inputs, the dict built, the check
    chal,          \* one run of challenge/four_challenges.py
    signing,       \* one call of sign_message: its arguments, its outcome
    security,      \* one ProtocolSecurity object and the clock it reads
    proving        \* one call of verify_proof: its arguments, its outcome

vars == <<poly, branch, ntt_out, intt_out, ntt_pc, pc, attempts, kg_error,
          key_files, private_key, public_key, signature,
          signed_message, honest, vmessage, vpublic_key, result,
          trapdoor, kg_params, commit, chal, signing, security, proving>>

ntt_vars == <<poly, branch, ntt_out, intt_out, ntt_pc>>
proto_vars == <<pc, attempts, kg_error, key_files, private_key,
                public_key, signature, signed_message, honest, vmessage,
                vpublic_key, result>>

lib_vars == <<trapdoor, kg_params, commit, chal>>
ext_vars == <<signing, security, proving>>

EmptyList == [i \in {} |-> 0]
NoDict == [unset |-> TRUE]

\* No call of the library routines outside the signature protocol.
NoCall == [pc |-> "idle"]

\* utils/params.py; GAUSSIAN_STDDEV = 1.2
ModuleParams == [N |-> N, q |-> q, GAUSSIAN_STDDEV10 |-> 12]

LibIdle ==
    /\ trapdoor = NoCall
    /\ kg_params = ModuleParams
    /\ commit = NoCall
    /\ chal = NoCall

ExtIdle ==
    /\ signing = NoCall
    /\ security = NoCall
    /\ proving = NoCall

NttIdle ==
    /\ poly = EmptyList
    /\ branch = "00"
    /\ ntt_out = EmptyList
    /\ intt_out = EmptyList
    /\ ntt_pc = "input"

ProtoInit ==
    /\ pc = "start"
    /\ attempts = 0
    /\ kg_error = "none"
    /\ key_files = {}
    /\ private_key = NoDict
    /\ public_key = NoDict
    /\ signature = NoDict
    /\ signed_message = ""
    /\ honest = FALSE
    /\ vmessage = NoDict
    /\ vpublic_key = NoDict
    /\ result = "none"

\* ------------------------------------------------------------------------
\* The transform as a pure function: inputs with coefficients in
\* (-q/2, q/2], one distinguished position and a background value.
\* ------------------------------------------------------------------------
HalfQ == (q - 1) \div 2

CoeffChoices == {-HalfQ, -1, 1, 2, HalfQ}
BackgroundChoices == {-1, 0, 1}
PositionChoices == {0, 1, N - 1}

PolyChoices ==
    { [i \in 0..(N - 1) |-> IF i = pos THEN c ELSE d] :
        pos \in PositionChoices, c \in CoeffChoices, d \in BackgroundChoices }

\* Lists that are shorter or longer than the ring degree
LengthChoices == {N \div 2, N - 1, N + 1, 2 * N}
OtherLengthChoices ==
    { [i \in 0..(n - 1) |-> IF i = 0 THEN c ELSE 1] :
        n \in LengthChoices, c \in {1, 2} }

NttInit ==
    /\ ExtIdle
    /\ poly \in PolyChoices \cup OtherLengthChoices
    /\ branch \in Branches
    /\ ntt_out = EmptyList
    /\ intt_out = EmptyList
    /\ ntt_pc = "input"
    /\ ProtoInit
    /\ LibIdle

ApplyNtt ==
    /\ ntt_pc = "input"
    /\ IF NttRaises(poly)
       THEN ntt_out' = ntt_out /\ ntt_pc' = "raised"
       ELSE ntt_out' = ntt(poly) /\ ntt_pc' = "transformed"
    /\ UNCHANGED <<poly, branch, intt_out>>
    /\ UNCHANGED proto_vars
    /\ UNCHANGED lib_vars
    /\ UNCHANGED ext_vars

\* intt(poly, branch) on the input itself
ApplyInttAlone ==
    /\ ntt_pc = "input"
    /\ IF NttRaises(poly)
       THEN intt_out' = intt_out /\ ntt_pc' = "raised"
       ELSE intt_out' = intt(poly, branch) /\ ntt_pc' = "inverse_only"
    /\ UNCHANGED <<poly, branch, ntt_out>>
    /\ UNCHANGED proto_vars
    /\ UNCHANGED lib_vars
    /\ UNCHANGED ext_vars

ApplyIntt ==
    /\ ntt_pc = "transformed"
    /\ intt_out' = intt(ntt_out, branch)
    /\ ntt_pc' = "inverted"
    /\ UNCHANGED <<poly, branch, ntt_out>>
    /\ UNCHANGED proto_vars
    /\ UNCHANGED lib_vars
    /\ UNCHANGED ext_vars

NttNext == ApplyNtt \/ ApplyIntt \/ ApplyInttAlone

SpecNTT == NttInit /\ [][NttNext]_vars

\* C6: intt(ntt(p), branch) equals p with every coefficient limited to the
\* branch bound (+-1 for 00, +-2 for 01/10, +-3 for 11).
C6_RoundTripIsClamp ==
    ntt_pc = "inverted" =>
        intt_out = [i \in 0..(N - 1) |->
                      np_clip(poly[i], -BranchBound(branch), BranchBound(branch))]

\* C7: every output coefficient of intt(v, branch) is congruent modulo q to
\* the coefficient of the unreduced inverse transform (a * N^-1 mod q).
C7_ReductionKeepsResidue ==
    ntt_pc = "inverted" =>
        \A i \in 0..(N - 1) :
            (intt_out[i] - intt_unreduced(ntt_out)[i]) % q = 0

\* ------------------------------------------------------------------------
\* keygen/keygen.py: AdvancedKeyGenerator.generate_advanced_keys
\* ------------------------------------------------------------------------
\* A list with coefficients in {-1, 0, 1}: c at index 1, d at index N-1.
SmallPoly(c, d) ==
    [i \in 0..(N - 1) |-> IF i = 1 THEN c ELSE IF i = N - 1 THEN d ELSE 0]

\* [random.randint(-1, 1) for _ in range(N)]
KeyPolyChoices == { SmallPoly(c, 0) : c \in {-1, 0, 1} }

\* random.randint(1, q-1), kept by the loop once pow(f[0], -1, q) succeeds
F0Choices == { c \in {1, 2, q - 1} : Invertible(c, q) }

\* random.randint(1, N-1)
ShiftChoices == {1, N - 1}

\* for i in range(N): pow(f_ntt[i], -1, q) raises ValueError on a slot
\* that is not invertible, and the frame calls generate_advanced_keys again
NeedsRestart(f_ntt) == \E i \in 0..(N - 1) : ~Invertible(f_ntt[i], q)

\* h_ntt.append((g_ntt[i] * f_inv) % q)
QuotientNtt(f_ntt, g_ntt) ==
    Stored([i \in 0..(N - 1) |-> MulMod(g_ntt[i], modinv(f_ntt[i], q))])

\* f[0] = random.randint(1, q-1) replaces the sampled coefficient
SetF0(f, f0) == [f EXCEPT ![0] = f0]

MakePrivateKey(f, g, h, k) ==
    [f |-> f, g |-> g, h |-> h, k |-> k, params |-> [N |-> N, q |-> q]]

MakePublicKey(h_pub) ==
    [h_pub |-> h_pub, params |-> [N |-> N, q |-> q]]

\* What one frame computes from its draws of f, g and f[0]: whether it
\* must start over, and the polynomials of the key pair otherwise.
KeyGenFrame(fs, g, f0) ==
    LET f == SetF0(fs, f0)
        f_ntt == ntt(f)
        g_ntt == ntt(g)
    IN  [restart |-> NeedsRestart(f_ntt),
         f |-> f,
         g |-> g,
         h_pub |-> IF NeedsRestart(f_ntt) THEN EmptyList
                   ELSE intt(QuotientNtt(f_ntt, g_ntt), "00")]

\* One frame of generate_advanced_keys.  A frame that meets a slot it
\* cannot invert returns self.generate_advanced_keys(): one more frame,
\* with no count of the attempts made.  The call can also fail where the
\* interpreter has no stack left for it (RecursionError, a depth the code
\* neither sets nor reads), and encrypting or writing the key files can
\* fail; the except clause turns each into KeyGenerationError.
KeyGen ==
    /\ pc = "start"
    /\ attempts < MaxRestarts
    /\ \E fs \in KeyPolyChoices, g \in KeyPolyChoices, f0 \in F0Choices :
         LET frame == KeyGenFrame(fs, g, f0)
         IN  IF frame.restart
             THEN \E stack_ok \in BOOLEAN :
                  IF stack_ok
                  THEN /\ attempts' = attempts + 1
                       /\ UNCHANGED <<pc, kg_error, private_key, public_key,
                                      key_files>>
                  ELSE /\ pc' = "keygen_failed"
                       /\ kg_error' = "recursion"
                       /\ UNCHANGED <<attempts, private_key, public_key,
                                      key_files>>
             ELSE \E h \in ShiftChoices, k \in ShiftChoices, io_ok \in BOOLEAN :
                  IF ~io_ok
                  THEN /\ pc' = "keygen_failed"
                       /\ kg_error' = "io"
                       /\ UNCHANGED <<attempts, private_key, public_key,
                                      key_files>>
                  ELSE /\ pc' = "keyed"
                       /\ private_key' = MakePrivateKey(frame.f, frame.g, h, k)
                       /\ public_key' = MakePublicKey(frame.h_pub)
                       /\ key_files' =
                             {"keys/private_key.bin", "keys/public_key.bin"}
                       /\ UNCHANGED <<attempts, kg_error>>
    /\ UNCHANGED <<signature, signed_message, honest, vmessage, vpublic_key,
                   result>>
    /\ UNCHANGED ntt_vars
    /\ UNCHANGED lib_vars
    /\ UNCHANGED ext_vars

KeyGenInit ==
    /\ ExtIdle
    /\ poly = EmptyList
    /\ branch = "00"
    /\ ntt_out = EmptyList
    /\ intt_out = EmptyList
    /\ ntt_pc = "input"
    /\ ProtoInit
    /\ LibIdle

SpecKeyGen == KeyGenInit /\ [][KeyGen]_vars

\* Key pairs keygen() returns, for the protocol runs: frames that did not
\* have to start over.
ReturnedKeyPairs ==
    { [private_key |-> MakePrivateKey(frame.f, frame.g, 1, N - 1),
       public_key |-> MakePublicKey(frame.h_pub)] :
        frame \in { fr \in { KeyGenFrame(fs, g, 2) :
                               fs \in KeyPolyChoices,
                               g \in KeyPolyChoices \ {SmallPoly(0, 0)} } :
                      ~fr.restart } }

\* ------------------------------------------------------------------------
\* Messages and the hash oracle (hashlib.sha256, an injective oracle here)
\* ------------------------------------------------------------------------
Messages == {"Hello, Hypermaze Beast Mode!", "Hello, Hypermaze Beast Mode?"}

\* str.encode(): the bytes object holding the text
Encode(m) == [type |-> "bytes", data |-> m]

\* a str handed over where bytes are expected
StrValue(m) == [type |-> "str", data |-> m]

\* hashlib.sha256(b).hexdigest()
sha256_hexdigest(b) == <<"sha256", b.data>>

\* ------------------------------------------------------------------------
\* signing/sign.py: sign_message
\* ------------------------------------------------------------------------
gcd(a, b) == ExtGcd(a, b)[1]

\* [random.randint(-1, 1) for _ in range(N)]
RChoices == { SmallPoly(c, 1) : c \in {-1, 1} }

\* random.randint(1, N-1) for R1 and R2
RValueChoices == {1, 2, N - 1}

\* [random.randint(0, q-1) for _ in range(N)]
SVectorChoices ==
    { [i \in 0..(N - 1) |-> (i * 5000) % q], [i \in 0..(N - 1) |-> (i + 1) % q] }

\* random.randint(0, q-1) for the redrawn s[0]
S0Choices == {0, 3, q - 1}

\* while a == 0 or b == 0 or math.gcd(a, N) != 1 or math.gcd(b, N) != 1
RejectBase(a, b) == a = 0 \/ b = 0 \/ gcd(a, N) # 1 \/ gcd(b, N) # 1

\* the pairs (R1, R2) the loop can end with
FinalRPairs ==
    { p \in RValueChoices \X RValueChoices : ~RejectBase(p[1] % N, p[2] % N) }

\* while x == 0 or math.gcd(x, N) != 1: s[0] = random.randint(0, q-1)
RejectPoint(x) == x = 0 \/ gcd(x, N) # 1

\* the lists s the loop can end with, from the sampled s and base a
FinalS(s, a) ==
    IF ~RejectPoint((a * s[0]) % N) THEN {s}
    ELSE { [s EXCEPT ![0] = s0] :
             s0 \in { c \in S0Choices : ~RejectPoint((a * c) % N) } }

Sign00(message, private_key_, r) ==
    LET r_ntt == [i \in 0..(N - 1) |-> ntt(r)[i] % q]
        x_values == [i \in 0..(N - 1) |-> (r_ntt[i] * r_ntt[i]) % q]
        s0 == intt(r_ntt, "00")
        s == [i \in DOMAIN s0 |-> s0[i] % q]
    IN  [challenge_type |-> "00",
         message_hash |-> sha256_hexdigest(Encode(message)),
         s |-> s,
         y_squared |-> x_values,
         x_values |-> x_values]

Sign01(message, private_key_, R, s) ==
    LET a == R[1] % N
        b == R[2] % N
        x == (a * s[0]) % N
        y == (b * s[0]) % N
    IN  [challenge_type |-> "01",
         message_hash |-> sha256_hexdigest(Encode(message)),
         s |-> s, x |-> x,
         h |-> private_key_.h, k |-> private_key_.k,
         a |-> a, b |-> b, R1 |-> R[1], R2 |-> R[2],
         commitment_y |-> y]

Sign10(message, private_key_, R, s) ==
    LET a == R[1] % N
        b == R[2] % N
        y == (a * s[0]) % N
        x == (b * s[0]) % N
    IN  [challenge_type |-> "10",
         message_hash |-> sha256_hexdigest(Encode(message)),
         s |-> s, x |-> x, y |-> y,
         h |-> private_key_.h, k |-> private_key_.k,
         a |-> a, b |-> b, R1 |-> R[1], R2 |-> R[2],
         commitment_x |-> x]

Sign11(message, private_key_, public_key_) ==
    LET h_pub_ntt == ntt(public_key_.h_pub)
        s_ntt == h_pub_ntt
        y_squared == [i \in 0..(N - 1) |-> (s_ntt[i] * s_ntt[i]) % q]
        xv == [i \in 0..(N - 1) |-> (s_ntt[i] * h_pub_ntt[i]) % q]
    IN  [challenge_type |-> "11",
         message_hash |-> sha256_hexdigest(Encode(message)),
         s |-> intt(s_ntt, "00"),
         y_squared |-> y_squared,
         xv |-> xv]

\* The signatures sign_message can return, over its random draws.
sign_message(message, private_key_, challenge_type, public_key_) ==
    CASE challenge_type = "00" ->
           { Sign00(message, private_key_, r) : r \in RChoices }
      [] challenge_type = "01" ->
           UNION { { Sign01(message, private_key_, R, s2) :
                       s2 \in FinalS(s, R[1] % N) } :
                   R \in FinalRPairs, s \in SVectorChoices }
      [] challenge_type = "10" ->
           UNION { { Sign10(message, private_key_, R, s2) :
                       s2 \in FinalS(s, R[1] % N) } :
                   R \in FinalRPairs, s \in SVectorChoices }
      [] challenge_type = "11" ->
           { Sign11(message, private_key_, public_key_) }

\* main(): sign_message(message, private_key, challenge_type[, public_key])
SignMessage ==
    /\ pc = "keyed"
    /\ \E m \in Messages, c \in Branches :
         \E sig \in sign_message(m, private_key, c, public_key) :
            /\ signature' = sig
            /\ signed_message' = m
    /\ honest' = TRUE
    /\ pc' = "signed"
    /\ UNCHANGED <<attempts, kg_error, key_files, private_key, public_key,
                   vmessage, vpublic_key, result>>
    /\ UNCHANGED ntt_vars
    /\ UNCHANGED lib_vars
    /\ UNCHANGED ext_vars

\* ------------------------------------------------------------------------
\* security/lattice_security.py
\* ------------------------------------------------------------------------
Abs(x) == IF x < 0 THEN -x ELSE x

\* np.sum over the entries lo..hi of a list
RECURSIVE SumRange(_, _, _)
SumRange(v, lo, hi) ==
    IF lo > hi THEN 0
    ELSE IF lo = hi THEN v[lo]
    ELSE LET mid == (lo + hi) \div 2
         IN  SumRange(v, lo, mid) + SumRange(v, mid + 1, hi)

SumAll(v) == SumRange(v, 0, LenOf(v) - 1)

SumSq(v) == SumAll([i \in DOMAIN v |-> v[i] * v[i]])

\* basis is the 1 x n matrix of h_pub: det of the Gram matrix is the sum
\* of squares, the product of norms is its root, and the quality metric
\* sqrt(det) / norm_product is nan for the zero vector (nan < 0.5 is
\* false) and 1 otherwise.  Compared in squares.
check_lattice_basis_reduction(basis) ==
    LET det == SumSq(basis)
        norm_sq == SumSq(basis)
    IN  ~(norm_sq # 0 /\ 4 * det < norm_sq)

ShortVectorThreshold == 1000000

\* x * x as <<hi, lo>> with x*x = hi * 10^6 + lo, for |x| <= 10^6
SquareLimbs(x) ==
    LET a == Abs(x) \div 1000
        b == Abs(x) % 1000
        low == 2 * a * b * 1000 + b * b
    IN  <<a * a + low \div ShortVectorThreshold, low % ShortVectorThreshold>>

\* norm = sqrt(sum of squares); norm > threshold, compared in squares
NormExceeds(v) ==
    \/ \E i \in DOMAIN v : Abs(v[i]) > ShortVectorThreshold
    \/ LET los == SumAll([i \in DOMAIN v |-> SquareLimbs(v[i])[2]])
           hi == SumAll([i \in DOMAIN v |-> SquareLimbs(v[i])[1]])
                    + los \div ShortVectorThreshold
           lo == los % ShortVectorThreshold
       IN  hi > ShortVectorThreshold \/ (hi = ShortVectorThreshold /\ lo > 0)

\* a 1-D integer vector: passes unless its norm exceeds the threshold
check_short_vector(vector) == ~NormExceeds(vector)

\* ------------------------------------------------------------------------
\* security/fiat_shamir_security.py, for challenge types 00 and 11
\* ------------------------------------------------------------------------
Has(d, key) == key \in DOMAIN d

\* np.array_equal on two integer lists
array_equal(u, v) == DOMAIN u = DOMAIN v /\ \A i \in DOMAIN u : u[i] = v[i]

check_zero_knowledge(proof) ==
    IF proof.challenge_type = "00"
    THEN /\ Has(proof, "y_squared")
         /\ Has(proof, "x_values")
         /\ array_equal(proof.y_squared, proof.x_values)
    ELSE /\ Has(proof, "y_squared")
         /\ Has(proof, "xv")
         /\ array_equal(proof.y_squared, proof.xv)

RequiredFields(challenge_type) ==
    {"s", "message_hash", "y_squared"}
        \cup (IF challenge_type = "11" THEN {"xv"} ELSE {})

check_soundness(proof) ==
    /\ RequiredFields(proof.challenge_type) \subseteq DOMAIN proof
    /\ proof.challenge_type = "11" => array_equal(proof.y_squared, proof.xv)

\* len(np.unique(s_array)) < len(s_array) // 4 is "insufficient entropy"
is_properly_randomized(proof) ==
    /\ Has(proof, "s") =>
          ~(Cardinality({ proof.s[i] : i \in DOMAIN proof.s })
                < LenOf(proof.s) \div 4)
    /\ (proof.challenge_type = "11" /\ Has(proof, "y_squared") /\ Has(proof, "xv"))
          => array_equal(proof.y_squared, proof.xv)

check_knowledge_extraction(proof) ==
    /\ RequiredFields(proof.challenge_type) \subseteq DOMAIN proof
    /\ is_properly_randomized(proof)

\* ------------------------------------------------------------------------
\* verification/verify.py: verify_signature
\* ------------------------------------------------------------------------
\* a value that is no dict (signature.get raises AttributeError)
NotADict == [notdict |-> TRUE]
IsDict(v) == ~Has(v, "notdict")

\* Step 6: computed_hash != message_hash rejects
MessageHashMatches_skipped(message, message_hash) == TRUE

MessageHashMatches(message, message_hash) ==
    sha256_hexdigest(message) = message_hash

\* Step 7, challenge 00: the loop compares the two lists of the signature;
\* an index past either list raises inside the inner try, which rejects.
Verify00(sig, pk) ==
    IF ~({"s", "message_hash", "y_squared", "x_values"} \subseteq DOMAIN sig)
    THEN "False"
    ELSE IF \A i \in 0..(N - 1) :
               /\ i \in DOMAIN sig.y_squared
               /\ i \in DOMAIN sig.x_values
               /\ sig.y_squared[i] = sig.x_values[i]
         THEN "True"
         ELSE "False"

\* Step 7, challenge 01; "Pass" is the fall through to the final return
Verify01_hashbound(sig) ==
    IF ~({"x", "R1", "R2"} \subseteq DOMAIN sig) \/ LenOf(sig.s) = 0
    THEN "False"
    ELSE IF sig.R1 <= 0 \/ sig.R2 <= 0 \/ sig.R1 >= N \/ sig.R2 >= N
    THEN "False"
    ELSE LET a == sig.R1 % N
             b == sig.R2 % N
             digest == IF sig.message_hash = sha256_hexdigest(
                                Encode("Hello, Hypermaze Beast Mode!"))
                       THEN 0 ELSE 1
             s_val == (sig.s[0] + digest) % N
             x_point == (a * s_val) % N
             y_point == (b * s_val) % N
         IN  IF a = 0 \/ b = 0 THEN "False"
             ELSE IF gcd(a, N) # 1 THEN "False"
             ELSE IF gcd(b, N) # 1 THEN "False"
             ELSE IF sig.x # x_point THEN "False"
             ELSE IF ~Has(sig, "commitment_y") THEN "False"
             ELSE IF sig.commitment_y # y_point THEN "False"
             ELSE IF sig.x = 0 THEN "False"
             ELSE IF gcd(sig.x, N) # 1 THEN "False"
             ELSE LET x_inv == modinv(sig.x, N)
                      slope == (sig.commitment_y * x_inv) % N
                      expected_y == (slope * x_point) % N
                  IN  IF expected_y # y_point THEN "False" ELSE "Pass"

Verify01(sig) ==
    IF ~({"x", "R1", "R2"} \subseteq DOMAIN sig) \/ LenOf(sig.s) = 0
    THEN "False"
    ELSE IF sig.R1 <= 0 \/ sig.R2 <= 0 \/ sig.R1 >= N \/ sig.R2 >= N
    THEN "False"
    ELSE LET a == sig.R1 % N
             b == sig.R2 % N
             s_val == sig.s[0] % N
             x_point == (a * s_val) % N
             y_point == (b * s_val) % N
         IN  IF a = 0 \/ b = 0 THEN "False"
             ELSE IF gcd(a, N) # 1 THEN "False"
             ELSE IF gcd(b, N) # 1 THEN "False"
             ELSE IF sig.x # x_point THEN "False"
             ELSE IF ~Has(sig, "commitment_y") THEN "False"
             ELSE IF sig.commitment_y # y_point THEN "False"
             ELSE IF sig.x = 0 THEN "False"
             ELSE IF gcd(sig.x, N) # 1 THEN "False"
             ELSE LET x_inv == modinv(sig.x, N)
                      slope == (sig.commitment_y * x_inv) % N
                      expected_y == (slope * x_point) % N
                  IN  IF expected_y # y_point THEN "False" ELSE "Pass"

\* Step 7, challenge 10
Verify10(sig) ==
    IF ~({"y", "h", "k", "a", "b", "R1", "R2", "commitment_x"}
            \subseteq DOMAIN sig)
    THEN "False"
    ELSE LET s_val == sig.s[0]
             a_mod == sig.R1 % N
             b_mod == sig.R2 % N
             y_point == (a_mod * s_val) % N
             x_point == (b_mod * s_val) % N
         IN  IF gcd(a_mod, N) # 1 \/ gcd(b_mod, N) # 1 THEN "False"
             ELSE IF sig.y # y_point THEN "False"
             ELSE IF sig.commitment_x # x_point THEN "False"
             ELSE IF sig.y = 0 THEN "False"
             ELSE IF gcd(sig.y, N) # 1 THEN "False"
             ELSE LET y_inv == modinv(sig.y, N)
                      slope == (x_point * y_inv) % N
                      expected_x == (slope * y_point) % N
                  IN  IF expected_x # x_point THEN "False" ELSE "Pass"

\* Step 7, challenge 11: ntt(s) and ntt(h_pub) are computed (and can
\* raise), the loop compares the two lists of the signature.
Verify11(sig, pk) ==
    IF ~({"s", "message_hash", "y_squared", "xv"} \subseteq DOMAIN sig)
    THEN "False"
    ELSE IF NttRaises(sig.s) \/ NttRaises(pk.h_pub) THEN "False"
    ELSE IF \A i \in 0..(N - 1) :
               /\ i \in DOMAIN sig.y_squared
               /\ i \in DOMAIN sig.xv
               /\ sig.y_squared[i] = sig.xv[i]
         THEN "True"
         ELSE "False"

\* Step 3, for challenge types 00 and 11
FiatShamirChecks(sig) ==
    /\ check_zero_knowledge(sig)
    /\ check_soundness(sig)
    /\ check_knowledge_extraction(sig)

\* Step 7: the if / elif chain and the final return True
ChallengeSpecific(sig, pk) ==
    LET challenge_type == sig.challenge_type
    IN  IF challenge_type = "00" THEN Verify00(sig, pk)
        ELSE IF challenge_type = "01"
        THEN (IF Verify01(sig) = "Pass" THEN "True" ELSE "False")
        ELSE IF challenge_type = "10"
        THEN (IF Verify10(sig) = "Pass" THEN "True" ELSE "False")
        ELSE IF challenge_type = "11" THEN Verify11(sig, pk)
        ELSE "True"

\* The body of the outer try: "True", "False", or "Exception" where a
\* statement raises.
VerifyBody(message, sig, pk) ==
    IF ~IsDict(sig) THEN "Exception"
    ELSE IF message.type # "bytes" \/ ~IsDict(pk) THEN "False"
    ELSE IF ~Has(pk, "h_pub") THEN "Exception"
    ELSE IF ~check_lattice_basis_reduction(pk.h_pub) THEN "False"
    ELSE IF ~Has(sig, "s") THEN "Exception"
    ELSE IF ~check_short_vector(sig.s) THEN "False"
    ELSE IF /\ Has(sig, "challenge_type")
            /\ sig.challenge_type \in {"00", "11"}
            /\ ~FiatShamirChecks(sig)
    THEN "False"
    ELSE IF \/ ~Has(sig, "challenge_type")
            \/ sig.challenge_type = ""
            \/ LenOf(sig.s) = 0
            \/ ~Has(sig, "message_hash")
    THEN "False"
    ELSE IF ~MessageHashMatches(message, sig.message_hash) THEN "False"
    ELSE ChallengeSpecific(sig, pk)

\* without the outer  except Exception: return False
verify_signature_uncaught(message, sig, pk) == VerifyBody(message, sig, pk)

verify_signature(message, sig, pk) ==
    IF VerifyBody(message, sig, pk) = "Exception" THEN "False"
    ELSE VerifyBody(message, sig, pk)

\* ------------------------------------------------------------------------
\* Signatures that do not come from sign_message: verify_signature takes
\* any value as its signature argument.
\* ------------------------------------------------------------------------
Ramp == [i \in 0..(N - 1) |-> i]

ForgedSChoices ==
    { Ramp,
      [i \in 0..(N - 1) |-> i % 2],
      [i \in 0..0 |-> 1],
      EmptyList,
      [i \in 0..(N - 1) |-> ShortVectorThreshold] }

ForgedListChoices ==
    { [i \in 0..(N - 1) |-> 0],
      [i \in 0..(N - 1) |-> IF i = N - 1 THEN 1 ELSE 0],
      [i \in 0..(N - 2) |-> 0] }

HashChoices == { sha256_hexdigest(Encode(m)) : m \in Messages }

UnknownTags == {"22", ""}

\* a signature dict for challenge 00 or 11 with fields of the forger's choice
SubmitForgedFiatShamir ==
    /\ pc = "keyed"
    /\ \E c \in {"00", "11"}, s \in ForgedSChoices, mh \in HashChoices,
          y2 \in ForgedListChoices, other \in ForgedListChoices :
         signature' =
            IF c = "00"
            THEN [challenge_type |-> c, message_hash |-> mh, s |-> s,
                  y_squared |-> y2, x_values |-> other]
            ELSE [challenge_type |-> c, message_hash |-> mh, s |-> s,
                  y_squared |-> y2, xv |-> other]
    /\ honest' = FALSE
    /\ pc' = "signed"
    /\ UNCHANGED <<attempts, kg_error, key_files, private_key, public_key,
                   signed_message, vmessage, vpublic_key, result>>
    /\ UNCHANGED ntt_vars
    /\ UNCHANGED lib_vars
    /\ UNCHANGED ext_vars

\* a signature dict whose challenge_type is none of the four tags
SubmitUnknownTag ==
    /\ pc = "keyed"
    /\ \E c \in UnknownTags, s \in ForgedSChoices, mh \in HashChoices :
         signature' = [challenge_type |-> c, message_hash |-> mh, s |-> s]
    /\ honest' = FALSE
    /\ pc' = "signed"
    /\ UNCHANGED <<attempts, kg_error, key_files, private_key, public_key,
                   signed_message, vmessage, vpublic_key, result>>
    /\ UNCHANGED ntt_vars
    /\ UNCHANGED lib_vars
    /\ UNCHANGED ext_vars

\* a signature argument that is no dict
SubmitNonDict ==
    /\ pc = "keyed"
    /\ signature' = NotADict
    /\ honest' = FALSE
    /\ pc' = "signed"
    /\ UNCHANGED <<attempts, kg_error, key_files, private_key, public_key,
                   signed_message, vmessage, vpublic_key, result>>
    /\ UNCHANGED ntt_vars
    /\ UNCHANGED lib_vars
    /\ UNCHANGED ext_vars

\* the dict d without key
Without(d, key) == [x \in (DOMAIN d) \ {key} |-> d[x]]

IntFields == {"x", "y", "a", "b", "R1", "R2", "commitment_x", "commitment_y"}

\* an honest signature with one field removed, one integer field changed,
\* or its message_hash replaced, on its way to the verifier
Tamper ==
    /\ pc = "signed"
    /\ honest
    /\ \/ \E key \in DOMAIN signature : signature' = Without(signature, key)
       \/ \E key \in (DOMAIN signature) \cap IntFields :
             signature' = [signature EXCEPT ![key] = (signature[key] + 1) % N]
       \/ \E mh \in HashChoices :
             /\ mh # signature.message_hash
             /\ signature' = [signature EXCEPT !["message_hash"] = mh]
    /\ honest' = FALSE
    /\ UNCHANGED <<pc, attempts, kg_error, key_files, private_key, public_key,
                   signed_message, vmessage, vpublic_key, result>>
    /\ UNCHANGED ntt_vars
    /\ UNCHANGED lib_vars
    /\ UNCHANGED ext_vars

\* the values handed over as message and public key
VerifyMessageChoices ==
    { Encode(m) : m \in Messages }
        \cup { StrValue("Hello, Hypermaze Beast Mode!") }

VerifyKeyChoices(pk) == { pk, Without(pk, "h_pub"), NotADict }

\* main(): is_valid = verify_signature(message_bytes, signature, public_key)
VerifySignature ==
    /\ pc = "signed"
    /\ \E m \in VerifyMessageChoices, pk \in VerifyKeyChoices(public_key) :
         /\ vmessage' = m
         /\ vpublic_key' = pk
         /\ result' = verify_signature(m, signature, pk)
    /\ pc' = "verified"
    /\ UNCHANGED <<attempts, kg_error, key_files, private_key, public_key,
                   signature, signed_message, honest>>
    /\ UNCHANGED ntt_vars
    /\ UNCHANGED lib_vars
    /\ UNCHANGED ext_vars

\* The protocol runs start from a key pair keygen() returned.
Init ==
    /\ ExtIdle
    /\ poly = EmptyList
    /\ branch = "00"
    /\ ntt_out = EmptyList
    /\ intt_out = EmptyList
    /\ ntt_pc = "input"
    /\ \E frame \in ReturnedKeyPairs :
         /\ private_key = frame.private_key
         /\ public_key = frame.public_key
    /\ pc = "keyed"
    /\ attempts = 0
    /\ kg_error = "none"
    /\ key_files = {"keys/private_key.bin", "keys/public_key.bin"}
    /\ signature = NoDict
    /\ signed_message = ""
    /\ honest = FALSE
    /\ vmessage = NoDict
    /\ vpublic_key = NoDict
    /\ result = "none"
    /\ LibIdle

Next ==
    \/ SignMessage
    \/ SubmitForgedFiatShamir
    \/ SubmitUnknownTag
    \/ SubmitNonDict
    \/ Tamper
    \/ VerifySignature

Spec == Init /\ [][Next]_vars

\* ------------------------------------------------------------------------
\* Properties of key generation (SpecKeyGen)
\* ------------------------------------------------------------------------
InSmallRange(c) == c \in {-1, 0, 1}

\* C8: for every key pair keygen returned, every slot of ntt(f) is
\* invertible mod q and ntt(h_pub)[i] = g_ntt[i] * invmod(f_ntt[i], q) mod q
\* at every slot i.
C8_PublicKeyIsQuotient ==
    pc = "keyed" =>
        LET f_ntt == ntt(private_key.f)
            g_ntt == ntt(private_key.g)
            h_pub_ntt == ntt(public_key.h_pub)
        IN  \A i \in 0..(N - 1) :
               /\ Invertible(f_ntt[i], q)
               /\ h_pub_ntt[i] = MulMod(g_ntt[i], modinv(f_ntt[i], q))

\* C9: in every private key keygen returned, all N coefficients of f and
\* all N coefficients of g lie in {-1, 0, 1}.
C9_SecretCoefficientsSmall ==
    pc = "keyed" =>
        \A i \in 0..(N - 1) :
            InSmallRange(private_key.f[i]) /\ InSmallRange(private_key.g[i])

\* C10: whole-generation restarts are bounded by a fixed number of
\* attempts: once that many attempts were discarded the generator has
\* failed with KeyGenerationError and is not about to generate again; and
\* a returned key is complete, with every slot of ntt(f) invertible.
C10_RestartsBounded ==
    /\ attempts >= MaxRestarts => pc = "keygen_failed"
    /\ pc = "keyed" =>
          /\ ~NeedsRestart(ntt(private_key.f))
          /\ LenOf(public_key.h_pub) = N

\* ------------------------------------------------------------------------
\* Properties of signing and verification (Spec)
\* ------------------------------------------------------------------------
\* verify_signature was called with the signed message and the public key
AsIntended ==
    /\ pc = "verified"
    /\ vmessage = Encode(signed_message)
    /\ vpublic_key = public_key

\* C1: for a key pair keygen returned and each of the four challenge
\* types, verify_signature(message_bytes, sign_message(message, private_key,
\* c, public_key), public_key) returns true.
C1_HonestSignatureAccepted ==
    (AsIntended /\ honest) => result = "True"

\* C2: verify_signature returns false for every signature whose
\* message_hash differs from sha256(message'), whatever the challenge type
\* and the other fields: an accepted signature carries the hash of the
\* message it was verified against.
C2_MessageBinding ==
    (pc = "verified" /\ result = "True") =>
        /\ vmessage.type = "bytes"
        /\ Has(signature, "message_hash")
        /\ signature.message_hash = sha256_hexdigest(vmessage)

\* C2 happens: an honest signature that verifies against its own message
\* was verified against the other message and rejected.
C2_ChangedMessageRejected ==
    /\ pc = "verified"
    /\ honest
    /\ vpublic_key = public_key
    /\ vmessage.type = "bytes"
    /\ vmessage # Encode(signed_message)
    /\ verify_signature(Encode(signed_message), signature, public_key) = "True"
    /\ result = "False"

\* C3: verify_signature accepts a 00 signature only if ntt(s)[i]^2 is
\* congruent to x[i] mod q at every slot, and a 11 signature only if the
\* equation y[i]^2 = x[i] * v[i] mod q recomputed from s and from
\* public_key['h_pub'] (y = x = ntt(s), v = ntt(h_pub)) holds at every slot.
C3_BranchEquationRecomputed ==
    (pc = "verified" /\ result = "True"
        /\ signature.challenge_type \in {"00", "11"}) =>
        /\ ~NttRaises(signature.s)
        /\ LET s_ntt == ntt(signature.s)
               v == ntt(vpublic_key.h_pub)
           IN  \A i \in 0..(N - 1) :
                  IF signature.challenge_type = "00"
                  THEN (s_ntt[i] * s_ntt[i] - signature.x_values[i]) % q = 0
                  ELSE (s_ntt[i] * s_ntt[i] - s_ntt[i] * v[i]) % q = 0

\* C4: verify_signature returns false for every signature whose
\* challenge_type is not one of the four tags 00, 01, 10, 11.
C4_ClosedEnumeration ==
    (pc = "verified" /\ Has(signature, "challenge_type")
        /\ signature.challenge_type \notin Branches) =>
        result = "False"

\* C5: for any message, signature and public key, verify_signature returns
\* a boolean; a failure inside it yields false and no exception reaches the
\* caller.
C5_VerifierTotal ==
    pc = "verified" =>
        /\ result \in {"True", "False"}
        /\ VerifyBody(vmessage, signature, vpublic_key) = "Exception"
              => result = "False"

\* C5 happens: a statement of the body raised (a signature that is no
\* dict, a missing 's' or 'h_pub') and the call returned false.
C5_FailureCaught ==
    /\ pc = "verified"
    /\ VerifyBody(vmessage, signature, vpublic_key) = "Exception"
    /\ result = "False"

\* ------------------------------------------------------------------------
\* keygen/keygen.py: AdvancedKeyGenerator.trapdoor_sample_advanced
\* sigma is held in tenths (sigma10 = 10 * sigma).
\* ------------------------------------------------------------------------
max_attempts == 1000

\* (sigma10, n, k) of the calls explored: three calls that reach the loop
\* and one call for each argument the first test refuses.
TrapdoorCalls ==
    { <<12, 512, 2>>, <<12, 512, 3>>, <<3, 512, 2>>,
      <<0, 512, 2>>, <<12, 0, 2>>, <<12, 512, 0>>, <<-12, 512, 2>> }

\* sigma <= 0 or n <= 0 or k <= 0
InvalidSamplingParameters(sigma10, n, k) ==
    sigma10 <= 0 \/ n <= 0 \/ k <= 0

\* t = int(np.ceil(sigma * np.sqrt(2 * k * np.log(2 * n)))), evaluated for
\* the calls above: 1.2 * sqrt(4 ln 1024) = 6.32, 1.2 * sqrt(6 ln 1024) =
\* 7.74, 0.3 * sqrt(4 ln 1024) = 1.58.
TailCut(sigma10, n, k) ==
    CASE <<sigma10, n, k>> = <<12, 512, 2>> -> 7
      [] <<sigma10, n, k>> = <<12, 512, 3>> -> 8
      [] <<sigma10, n, k>> = <<3, 512, 2>> -> 2

\* x = int(np.random.normal(0, sigma)): any integer
XChoices == {-9, -8, -7, -2, 0, 1, 2, 7, 8, 9}

\* Outcomes of u < c * np.exp(-x**2 / (2 * sigma**2)) for u in [0, 1):
\* with c = 1 / (sigma * sqrt(2 pi)) the right side reaches 1 only at
\* x = 0 with sigma below 0.399, where every u passes.
DensityTest(sigma10, xv) ==
    IF sigma10 < 4 /\ xv = 0 THEN {TRUE} ELSE BOOLEAN

\* abs(x) <= 6 * sigma
WithinSixSigma(xv, sigma10) == 10 * Abs(xv) <= 6 * sigma10

Rejected_uncounted(td) == td

\* attempt += 1
Rejected(td) == [td EXCEPT !.attempt = @ + 1]

\* passes counts the passes of the while body begun so far; the code keeps
\* no such count.
Pass(td) == [td EXCEPT !.passes = @ + 1]

TrapdoorInit ==
    /\ ExtIdle
    /\ NttIdle
    /\ ProtoInit
    /\ \E call \in TrapdoorCalls :
         trapdoor = [pc |-> "call", sigma10 |-> call[1], n |-> call[2],
                     k |-> call[3], attempt |-> 0, passes |-> 0,
                     x |-> 0, error |-> "none"]
    /\ kg_params = ModuleParams
    /\ commit = NoCall
    /\ chal = NoCall

\* The argument test, max_attempts = 1000 and attempt = 0.
TrapdoorEnter ==
    /\ trapdoor.pc = "call"
    /\ trapdoor' =
         IF InvalidSamplingParameters(trapdoor.sigma10, trapdoor.n, trapdoor.k)
         THEN [trapdoor EXCEPT !.pc = "raised",
                               !.error = "Invalid sampling parameters"]
         ELSE [trapdoor EXCEPT !.pc = "loop", !.attempt = 0]
    /\ UNCHANGED ntt_vars
    /\ UNCHANGED proto_vars
    /\ UNCHANGED <<kg_params, commit, chal>>
    /\ UNCHANGED ext_vars

\* One pass of the while body.
TrapdoorIteration ==
    /\ trapdoor.pc = "loop"
    /\ trapdoor.attempt < max_attempts
    /\ \E xv \in XChoices :
         LET t == TailCut(trapdoor.sigma10, trapdoor.n, trapdoor.k)
         IN  IF Abs(xv) > t
             THEN trapdoor' = Rejected(Pass(trapdoor))
             ELSE \E u_below \in DensityTest(trapdoor.sigma10, xv) :
                  IF u_below /\ WithinSixSigma(xv, trapdoor.sigma10)
                  THEN trapdoor' = [Pass(trapdoor) EXCEPT !.pc = "returned",
                                                          !.x = xv]
                  ELSE trapdoor' = Rejected(Pass(trapdoor))
    /\ UNCHANGED ntt_vars
    /\ UNCHANGED proto_vars
    /\ UNCHANGED <<kg_params, commit, chal>>
    /\ UNCHANGED ext_vars

\* The while test fails: raise after the loop.
TrapdoorExhausted ==
    /\ trapdoor.pc = "loop"
    /\ ~(trapdoor.attempt < max_attempts)
    /\ trapdoor' = [trapdoor EXCEPT
                       !.pc = "raised",
                       !.error = "Maximum sampling attempts reached"]
    /\ UNCHANGED ntt_vars
    /\ UNCHANGED proto_vars
    /\ UNCHANGED <<kg_params, commit, chal>>
    /\ UNCHANGED ext_vars

TrapdoorNext == TrapdoorEnter \/ TrapdoorIteration \/ TrapdoorExhausted

SpecTrapdoor == TrapdoorInit /\ [][TrapdoorNext]_vars

\* C11: trapdoor_sample_advanced makes at most 1000 sampling attempts:
\* every pass of the loop either returns or adds one to the attempt
\* counter, a returned x has |x| <= t and |x| <= 6 * sigma, and the call
\* raises "Maximum sampling attempts reached" only once 1000 attempts were
\* rejected.
C11_AttemptsCapped ==
    trapdoor.pc \in {"loop", "returned", "raised"} =>
        /\ trapdoor.attempt <= max_attempts
        /\ trapdoor.passes <= max_attempts
        /\ trapdoor.pc = "loop" => trapdoor.attempt = trapdoor.passes
        /\ trapdoor.pc = "returned" =>
              /\ trapdoor.attempt = trapdoor.passes - 1
              /\ Abs(trapdoor.x) <=
                    TailCut(trapdoor.sigma10, trapdoor.n, trapdoor.k)
              /\ WithinSixSigma(trapdoor.x, trapdoor.sigma10)
        /\ trapdoor.pc = "raised" =>
              \/ /\ trapdoor.error = "Invalid sampling parameters"
                 /\ trapdoor.passes = 0
              \/ /\ trapdoor.error = "Maximum sampling attempts reached"
                 /\ trapdoor.attempt = max_attempts
                 /\ trapdoor.passes = max_attempts

\* C11 happens: 1000 attempts were rejected and the call raised.
C11_CapReached ==
    /\ trapdoor.pc = "raised"
    /\ trapdoor.error = "Maximum sampling attempts reached"
    /\ trapdoor.attempt = max_attempts

\* ------------------------------------------------------------------------
\* keygen/keygen.py: keygen() = AdvancedKeyGenerator() followed by
\* generate_advanced_keys()
\* ------------------------------------------------------------------------
\* int(np.sqrt(n))
IntSqrt(n) == CHOOSE r \in 0..n : r * r <= n /\ n < (r + 1) * (r + 1)

_is_prime(n) ==
    IF n < 2 THEN FALSE
    ELSE \A i \in 2..IntSqrt(n) : n % i # 0

_validate_parameters_skipped(p) == "ok"

\* The message of the KeyGenerationError raised, or "ok".
_validate_parameters(p) ==
    IF p.N <= 0 THEN "Invalid polynomial degree N"
    ELSE IF ~_is_prime(p.q) THEN "Invalid modulus q"
    ELSE IF p.GAUSSIAN_STDDEV10 <= 0
         THEN "Invalid Gaussian standard deviation"
    ELSE "ok"

\* Values of utils/params.py explored: the module's own and ones that
\* differ from it in one parameter.
ParamChoices ==
    {ModuleParams}
    \cup { [ModuleParams EXCEPT !.N = v] : v \in {0, -N} }
    \cup { [ModuleParams EXCEPT !.q = v] : v \in {-7, 0, 1, 4, 169, 12287, q - 1} }
    \cup { [ModuleParams EXCEPT !.GAUSSIAN_STDDEV10 = v] : v \in {0, -12} }

KeygenCallInit ==
    /\ ExtIdle
    /\ NttIdle
    /\ pc = "new"
    /\ attempts = 0
    /\ kg_error = "none"
    /\ key_files = {}
    /\ private_key = NoDict
    /\ public_key = NoDict
    /\ signature = NoDict
    /\ signed_message = ""
    /\ honest = FALSE
    /\ vmessage = NoDict
    /\ vpublic_key = NoDict
    /\ result = "none"
    /\ trapdoor = NoCall
    /\ commit = NoCall
    /\ chal = NoCall
    /\ kg_params \in ParamChoices

\* AdvancedKeyGenerator.__init__ inside keygen(): the backend, the salt,
\* the parameter test and the key derivation; whatever it raises leaves
\* keygen() as KeyGenerationError.
Construct ==
    /\ pc = "new"
    /\ \E env_ok \in BOOLEAN :
         IF env_ok /\ _validate_parameters(kg_params) = "ok"
         THEN /\ pc' = "start"
              /\ UNCHANGED kg_error
         ELSE /\ pc' = "keygen_failed"
              /\ kg_error' = "init"
    /\ UNCHANGED <<attempts, key_files, private_key, public_key, signature,
                   signed_message, honest, vmessage, vpublic_key, result>>
    /\ UNCHANGED ntt_vars
    /\ UNCHANGED lib_vars
    /\ UNCHANGED ext_vars

KeygenCallNext == Construct \/ KeyGen

SpecKeygenCall == KeygenCallInit /\ [][KeygenCallNext]_vars

HasDivisor(n) == \E d \in 2..(n - 1) : n % d = 0

\* C12: whenever N <= 0, q is not prime, or the Gaussian standard
\* deviation is <= 0, keygen fails with KeyGenerationError before any
\* polynomial is sampled or any key file is written.
C12_InvalidParametersFailFirst ==
    (pc # "new" /\ (\/ kg_params.N <= 0
                    \/ kg_params.q < 2
                    \/ HasDivisor(kg_params.q)
                    \/ kg_params.GAUSSIAN_STDDEV10 <= 0)) =>
        /\ pc = "keygen_failed"
        /\ kg_error = "init"
        /\ attempts = 0
        /\ key_files = {}
        /\ private_key = NoDict
        /\ public_key = NoDict

\* C12 happens: keygen() was called with a composite q and failed in the
\* constructor.
C12_CompositeModulusRefused ==
    /\ pc = "keygen_failed"
    /\ kg_error = "init"
    /\ kg_params.N > 0
    /\ kg_params.GAUSSIAN_STDDEV10 > 0
    /\ kg_params.q > 2
    /\ HasDivisor(kg_params.q)

\* ------------------------------------------------------------------------
\* commitment/lattice_commit.py and commitment/commit.py
\* The floats explored are whole numbers in the hyperbola fields (a = 12,
\* b = 48, x = +-20 give y = 64 and y = 13 exactly) and thousandths in the
\* key points, the intercept and the tolerance of the line test; slopes are
\* whole numbers or inf.  A point is <<x, y, kind>>, kind telling whether
\* its coordinates are int or float ("number") or something else.
\* ------------------------------------------------------------------------
shake256_hash(data) == <<"shake256", data>>

ValueError == [raised |-> "ValueError"]
NoneArg == [given |-> FALSE]
FiniteSlope(v) == [inf |-> FALSE, value |-> v]
InfSlope == [inf |-> TRUE, value |-> 0]

\* all(isinstance(coord, (int, float)) for coord in point)
IsNumeric(point) == point[3] = "number"

\* np.sqrt(num / den) in whole units: exact where the quotient is the
\* square of a whole number, else the whole number below the root
SqrtRatio(num, den) ==
    CHOOSE r \in 0..num : r * r * den <= num /\ num < (r + 1) * (r + 1) * den

\* np.allclose(actual, expected, atol=1e-6) in thousandths:
\* |actual - expected| <= 1e-6 + 1e-5 * |expected|, for |expected| below
\* 2000 units
allclose(actual, expected) ==
    LET d == Abs(actual - expected)
    IN  d <= 21 /\ d * 100000 <= 100 + Abs(expected)

\* np.allclose(num / den, 1, atol=1e-6): |num/den - 1| <= 1e-6 + 1e-5
allclose_one(num, den) == Abs(num - den) <= (11 * den) \div 1000000

\* compute_hyperbola_points with the domain test replaced by a clamp of
\* y_squared at 0
compute_hyperbola_points_clamped(xs, a, b, is_horizontal) ==
    IF is_horizontal
    THEN IF a = 0 THEN ValueError
         ELSE [i \in DOMAIN xs |->
                  IF xs[i] * xs[i] <= a * a THEN 0
                  ELSE SqrtRatio((xs[i] * xs[i] - a * a) * b * b, a * a)]
    ELSE IF b = 0 THEN ValueError
         ELSE [i \in DOMAIN xs |->
                  SqrtRatio((b * b + xs[i] * xs[i]) * a * a, b * b)]

\* compute_hyperbola_points: ValueError or the y of every position.  A zero
\* divisor gives inf or nan, which the isnan/isinf test turns into
\* ValueError; a zero factor gives y = 0.
compute_hyperbola_points(xs, a, b, is_horizontal) ==
    IF is_horizontal
    THEN IF a = 0 THEN ValueError
         ELSE IF \E i \in DOMAIN xs : xs[i] * xs[i] <= a * a
         THEN ValueError
         ELSE [i \in DOMAIN xs |->
                  SqrtRatio((xs[i] * xs[i] - a * a) * b * b, a * a)]
    ELSE IF b = 0 THEN ValueError
         ELSE [i \in DOMAIN xs |->
                  SqrtRatio((b * b + xs[i] * xs[i]) * a * a, b * b)]

\* compute_line_equation with the intercept taken at the other point's x
compute_line_equation_crossed(point1, point2) ==
    IF ~(IsNumeric(point1) /\ IsNumeric(point2)) THEN ValueError
    ELSE IF point2[1] = point1[1] THEN <<InfSlope, point1[1]>>
    ELSE LET slope == (point2[2] - point1[2]) \div (point2[1] - point1[1])
         IN  <<FiniteSlope(slope), point1[2] - slope * point2[1]>>

\* compute_line_equation: ValueError or <<slope, intercept>>
compute_line_equation(point1, point2) ==
    IF ~(IsNumeric(point1) /\ IsNumeric(point2)) THEN ValueError
    ELSE IF point2[1] = point1[1] THEN <<InfSlope, point1[1]>>
    ELSE LET slope == (point2[2] - point1[2]) \div (point2[1] - point1[1])
         IN  <<FiniteSlope(slope), point1[2] - slope * point1[1]>>

\* intt of (u_ntt[i] * r_ntt[i] + v_ntt[i] + e_ntt[i]) % q
CommitPoly(u_ntt, r_ntt, v_ntt, e_ntt) ==
    intt(Stored([i \in 0..(N - 1) |->
                    (u_ntt[i] * r_ntt[i] + v_ntt[i] + e_ntt[i]) % q]), "00")

ZeroVector == [i \in 0..(N - 1) |-> 0]

\* The body of create_lattice_commitment for one draw of the error term;
\* plot_ok says whether the two plot_hyperbola calls returned.
create_lattice_commitment(xs, ys, randomness, a, b, private_key_point, public_key_point, error, plot_ok) ==
    IF NttRaises(xs) \/ NttRaises(ys) \/ NttRaises(randomness)
    THEN ValueError
    ELSE
    LET x_ntt == ntt(xs)
        y_ntt == ntt(ys)
        r_ntt == ntt(randomness)
        error_ntt == ntt(error)
        commitment == CommitPoly(x_ntt, r_ntt, y_ntt, error_ntt)
        line == compute_line_equation(private_key_point, public_key_point)
        y_horiz == compute_hyperbola_points(xs, a, b, TRUE)
        y_vert == compute_hyperbola_points(xs, a, b, FALSE)
    IN  IF line = ValueError \/ y_horiz = ValueError
           \/ y_vert = ValueError \/ ~plot_ok
        THEN ValueError
        ELSE [commitment |-> shake256_hash(commitment),
              commitment_poly |-> commitment,
              x |-> xs,
              y |-> ys,
              randomness |-> randomness,
              error |-> error,
              a |-> a,
              b |-> b,
              slope |-> line[1],
              intercept |-> line[2],
              private_key_point |-> private_key_point,
              public_key_point |-> public_key_point,
              horiz_hyperbola |->
                 [x |-> xs, y |-> y_horiz,
                  commitment |-> CommitPoly(ntt(xs), r_ntt, ZeroVector,
                                            error_ntt),
                  graph |-> "png"],
              vert_hyperbola |->
                 [x |-> xs, y |-> y_vert,
                  commitment |-> CommitPoly(ntt(y_vert), r_ntt, ZeroVector,
                                            error_ntt),
                  graph |-> "png"]]

create_commitment(xs, ys, randomness, a, b, private_key_point, public_key_point, error, plot_ok) ==
    IF LenOf(xs) # N \/ LenOf(ys) # N \/ LenOf(randomness) # N
    THEN ValueError
    ELSE IF a <= 0 \/ b <= 0 THEN ValueError
    ELSE create_lattice_commitment(xs, ys, randomness, a, b,
                                   private_key_point, public_key_point,
                                   error, plot_ok)

\* Steps 1-3 of verify_lattice_commitment: the error term, the recomputed
\* commitment and the hash.
BindingHolds(cd) ==
    /\ \A i \in DOMAIN cd.error : Abs(cd.error[i]) <= 1
    /\ LenOf(cd.error) = N
    /\ ~NttRaises(cd.x) /\ ~NttRaises(cd.y) /\ ~NttRaises(cd.randomness)
    /\ array_equal(cd.commitment_poly,
                   CommitPoly(ntt(cd.x), ntt(cd.randomness), ntt(cd.y),
                              ntt(cd.error)))
    /\ shake256_hash(cd.commitment_poly) = cd.commitment

\* Challenge 01: lhs = x**2 / a**2 - y**2 / b**2 is close to 1 and y is
\* close to np.sqrt((x**2 / a**2 - 1) * b**2), at every position.  Between
\* whole numbers of this size close means equal.
HorizontalHolds(h, a, b) ==
    /\ DOMAIN h.x = DOMAIN h.y
    /\ \A i \in DOMAIN h.x :
          /\ allclose_one(h.x[i] * h.x[i] * b * b - h.y[i] * h.y[i] * a * a,
                          a * a * b * b)
          /\ h.x[i] * h.x[i] >= a * a
          /\ h.y[i] >= 0
          /\ h.y[i] * h.y[i] * a * a = (h.x[i] * h.x[i] - a * a) * b * b

\* Challenge 10: lhs = y**2 / a**2 - x**2 / b**2 is close to 1 and x is
\* close to np.sqrt((y**2 / a**2 - 1) * b**2), at every position.
VerticalHolds(v, a, b) ==
    /\ DOMAIN v.x = DOMAIN v.y
    /\ \A i \in DOMAIN v.x :
          /\ allclose_one(v.y[i] * v.y[i] * b * b - v.x[i] * v.x[i] * a * a,
                          a * a * b * b)
          /\ v.y[i] * v.y[i] >= a * a
          /\ v.x[i] >= 0
          /\ v.x[i] * v.x[i] * a * a = (v.y[i] * v.y[i] - a * a) * b * b

\* Both key points lie on the stored line, as np.allclose sees it.
PointsOnLine(cd) ==
    IF ~cd.slope.inf
    THEN /\ allclose(cd.private_key_point[2],
                     cd.slope.value * cd.private_key_point[1] + cd.intercept)
         /\ allclose(cd.public_key_point[2],
                     cd.slope.value * cd.public_key_point[1] + cd.intercept)
    ELSE /\ allclose(cd.private_key_point[1], cd.intercept)
         /\ allclose(cd.public_key_point[1], cd.intercept)

HyperbolaChallenge_any(challenge) == TRUE

\* challenge in ['01', '10']
HyperbolaChallenge(challenge) == challenge \in {"01", "10"}

\* verify_lattice_commitment once steps 1-3 have said binding: "True" or
\* "False"; whatever the body raises is caught and gives "False".
LatticeVerdict(binding, cd, challenge) ==
    IF ~binding THEN "False"
    ELSE IF ~HyperbolaChallenge(challenge) THEN "True"
    ELSE IF cd.a <= 0 \/ cd.b <= 0 THEN "False"
    ELSE IF challenge = "01" /\ ~HorizontalHolds(cd.horiz_hyperbola, cd.a, cd.b)
    THEN "False"
    ELSE IF challenge # "01" /\ ~VerticalHolds(cd.vert_hyperbola, cd.a, cd.b)
    THEN "False"
    ELSE IF ~(IsNumeric(cd.private_key_point)
              /\ IsNumeric(cd.public_key_point))
    THEN "False"
    ELSE IF ~PointsOnLine(cd) THEN "False"
    ELSE "True"

verify_lattice_commitment(cd, challenge) ==
    LatticeVerdict(BindingHolds(cd), cd, challenge)

\* verify_commitment after its call of verify_lattice_commitment returned
\* lattice_says; NoneArg for an argument left out.
CommitVerdict(lattice_says, cd, xarg, yarg, challenge) ==
    IF lattice_says # "True" THEN "False"
    ELSE IF xarg # NoneArg /\ ~array_equal(cd.x, xarg) THEN "False"
    ELSE IF yarg # NoneArg /\ ~array_equal(cd.y, yarg) THEN "False"
    ELSE IF ~HyperbolaChallenge(challenge) THEN "True"
    ELSE IF challenge = "01" /\ xarg # NoneArg
            /\ ~array_equal(cd.horiz_hyperbola.x, xarg)
    THEN "False"
    ELSE IF challenge # "01" /\ yarg # NoneArg
            /\ ~array_equal(cd.vert_hyperbola.y, yarg)
    THEN "False"
    ELSE IF ~PointsOnLine(cd) THEN "False"
    ELSE "True"

verify_commitment(cd, xarg, yarg, challenge) ==
    CommitVerdict(verify_lattice_commitment(cd, challenge), cd, xarg, yarg,
                  challenge)

\* ------------------------------------------------------------------------
\* One commitment: built from its inputs, possibly built a second time,
\* possibly changed in one field, then verified.
\* ------------------------------------------------------------------------
ConstVector(c) == [i \in 0..(N - 1) |-> c]

XVectorChoices ==
    { ConstVector(20), ConstVector(-20),
      [i \in 0..(N - 1) |-> IF i = 0 THEN -20 ELSE 20],
      [i \in 0..(N - 1) |-> IF i = N - 1 THEN -12 ELSE 20],
      ConstVector(12) }
RandomnessChoices == { ConstVector(1), Ramp }
ShapeChoices == { <<12, 48>>, <<0, 48>>, <<-12, 48>>, <<12, -48>> }
PointPairChoices ==
    { << <<1000, 2000, "number">>, <<3000, 4000, "number">> >>,
      << <<0, 1000000, "number">>, <<1000, 1000000, "number">> >>,
      << <<1000, 5000, "number">>, <<3000, 1000, "number">> >>,
      << <<1000, 2000, "number">>, <<1000, 3000, "number">> >>,
      << <<1000, 2000, "str">>, <<3000, 4000, "number">> >> }

\* error = np.array([np.random.randint(-1, 2) for _ in range(N)])
ErrorChoices == { ZeroVector, SmallPoly(1, -1), ConstVector(1) }

\* plot_hyperbola draws a vertical line with plt.axvline(color='r--'),
\* which matplotlib may refuse; every other plot returns.
PlotOutcomes(point1, point2) ==
    IF IsNumeric(point1) /\ IsNumeric(point2) /\ point1[1] = point2[1]
    THEN BOOLEAN ELSE {TRUE}

\* The inputs of test_hyperbola.py's kind and the ones that differ from
\* them in one argument.
BaseCommitInput ==
    [x |-> ConstVector(20), y |-> ConstVector(1), randomness |-> Ramp,
     shape |-> <<12, 48>>,
     points |-> << <<1000, 2000, "number">>, <<3000, 4000, "number">> >>]

CommitInputChoices ==
    { [BaseCommitInput EXCEPT !.x = v] : v \in XVectorChoices }
    \cup { [BaseCommitInput EXCEPT !.randomness = v] :
             v \in RandomnessChoices }
    \cup { [BaseCommitInput EXCEPT !.shape = v] : v \in ShapeChoices }
    \cup { [BaseCommitInput EXCEPT !.points = v] : v \in PointPairChoices }

CommitInit ==
    /\ ExtIdle
    /\ NttIdle
    /\ ProtoInit
    /\ trapdoor = NoCall
    /\ kg_params = ModuleParams
    /\ chal = NoCall
    /\ \E inputs \in CommitInputChoices :
         commit = [pc |-> "input", inputs |-> inputs, data |-> NoDict,
                   created |-> NoDict, second |-> NoDict,
                   tampered |-> "none", entry |-> "none",
                   challenge |-> "None", result |-> "none"]

\* What one call on the inputs can return: one value for each draw of the
\* error term and each outcome of the plots.
CreateOutcomes(entry, inputs) ==
    { IF entry = "create_commitment"
      THEN create_commitment(inputs.x, inputs.y, inputs.randomness,
                             inputs.shape[1], inputs.shape[2],
                             inputs.points[1], inputs.points[2],
                             error, plot_ok)
      ELSE create_lattice_commitment(inputs.x, inputs.y, inputs.randomness,
                                     inputs.shape[1], inputs.shape[2],
                                     inputs.points[1], inputs.points[2],
                                     error, plot_ok) :
        error \in ErrorChoices,
        plot_ok \in PlotOutcomes(inputs.points[1], inputs.points[2]) }

CommitEntries == {"create_commitment", "create_lattice_commitment"}

CreateCommitment ==
    /\ commit.pc = "input"
    /\ \E entry \in CommitEntries :
       \E outcome \in CreateOutcomes(entry, commit.inputs) :
         IF outcome = ValueError
         THEN commit' = [commit EXCEPT !.pc = "raised"]
         ELSE commit' = [commit EXCEPT !.pc = "committed",
                                       !.data = outcome,
                                       !.created = outcome]
    /\ UNCHANGED ntt_vars
    /\ UNCHANGED proto_vars
    /\ UNCHANGED <<trapdoor, kg_params, chal>>
    /\ UNCHANGED ext_vars

\* The same call once more on the same inputs.
CreateAgain ==
    /\ commit.pc = "committed"
    /\ commit.tampered = "none"
    /\ \E outcome \in CreateOutcomes("create_commitment", commit.inputs) :
         commit' = [commit EXCEPT !.pc = "repeated", !.second = outcome]
    /\ UNCHANGED ntt_vars
    /\ UNCHANGED proto_vars
    /\ UNCHANGED <<trapdoor, kg_params, chal>>
    /\ UNCHANGED ext_vars

Positions == {0, N - 1}

\* The dict with one field changed, tagged with the field's name.
Changed(field, cd) == [field |-> field, data |-> cd]

BindingAlterations(cd) ==
    { Changed("commitment",
              [cd EXCEPT !.commitment = shake256_hash(ConstVector(2))]) }
    \cup { Changed("commitment_poly",
                   [cd EXCEPT !.commitment_poly[i] = v]) :
             i \in Positions, v \in {0, 1, 2} }
    \cup { Changed("error", [cd EXCEPT !.error[i] = v]) :
             i \in Positions, v \in {-1, 0, 1, 2} }

ShapeAlterations(cd) ==
    { Changed("a", [cd EXCEPT !.a = v]) : v \in {0, 13} }
    \cup { Changed("b", [cd EXCEPT !.b = v]) : v \in {-48, 47} }

LineAlterations(cd) ==
    { Changed("slope", [cd EXCEPT !.slope = v]) :
        v \in {InfSlope, FiniteSlope(cd.slope.value + 1)} }
    \cup { Changed("intercept", [cd EXCEPT !.intercept = @ + v]) :
             v \in {5, 1000} }
    \cup { Changed("private_key_point",
                   [cd EXCEPT !.private_key_point[2] = @ + v]) :
             v \in {5, 1000} }
    \cup { Changed("public_key_point",
                   [cd EXCEPT !.public_key_point[2] = @ + v]) :
             v \in {5, 1000} }
    \cup { Changed("public_key_point",
                   [cd EXCEPT !.public_key_point[3] = "str"]) }

HyperbolaAlterations(cd) ==
    { Changed("horiz_hyperbola", [cd EXCEPT !.horiz_hyperbola.x[0] = @ + 1]),
      Changed("horiz_hyperbola", [cd EXCEPT !.horiz_hyperbola.y[0] = @ + 1]),
      Changed("horiz_hyperbola",
              [cd EXCEPT !.horiz_hyperbola.commitment = ConstVector(2)]),
      Changed("vert_hyperbola", [cd EXCEPT !.vert_hyperbola.x[0] = @ + 1]),
      Changed("vert_hyperbola", [cd EXCEPT !.vert_hyperbola.y[0] = @ + 1]),
      Changed("vert_hyperbola",
              [cd EXCEPT !.vert_hyperbola.commitment = ConstVector(2)]) }

Alterations(cd) ==
    { alt \in BindingAlterations(cd) \cup ShapeAlterations(cd)
              \cup LineAlterations(cd) \cup HyperbolaAlterations(cd) :
        alt.data # cd }

\* Someone changes one field of the dict before it is verified.
TamperCommitment ==
    /\ commit.pc = "committed"
    /\ commit.tampered = "none"
    /\ \E alt \in Alterations(commit.data) :
         commit' = [commit EXCEPT !.data = alt.data,
                                  !.tampered = alt.field]
    /\ UNCHANGED ntt_vars
    /\ UNCHANGED proto_vars
    /\ UNCHANGED <<trapdoor, kg_params, chal>>
    /\ UNCHANGED ext_vars

ChallengeChoices == {"None"} \cup Branches
VerifyEntries == {"verify_commitment", "verify_lattice_commitment"}

\* verify_commitment(data, challenge=c) or verify_lattice_commitment(data, c)
\* after steps 1-3 have said binding
VerdictOf(entry, binding, cd, challenge) ==
    IF entry = "verify_commitment"
    THEN CommitVerdict(LatticeVerdict(binding, cd, challenge), cd,
                       NoneArg, NoneArg, challenge)
    ELSE LatticeVerdict(binding, cd, challenge)

VerifierSays(entry, cd, challenge) ==
    VerdictOf(entry, BindingHolds(cd), cd, challenge)

VerifyCommitment ==
    /\ commit.pc = "committed"
    /\ \E binding \in {BindingHolds(commit.data)} :
       \E entry \in VerifyEntries, challenge \in ChallengeChoices :
         commit' = [commit EXCEPT
                       !.pc = "verified",
                       !.entry = entry,
                       !.challenge = challenge,
                       !.result = VerdictOf(entry, binding, commit.data,
                                            challenge)]
    /\ UNCHANGED ntt_vars
    /\ UNCHANGED proto_vars
    /\ UNCHANGED <<trapdoor, kg_params, chal>>
    /\ UNCHANGED ext_vars

CommitNext ==
    \/ CreateCommitment
    \/ CreateAgain
    \/ TamperCommitment
    \/ VerifyCommitment

SpecCommit == CommitInit /\ [][CommitNext]_vars

\* x, y, randomness of length N, a, b > 0, x^2 / a^2 > 1 at every
\* position, two points of numbers
ValidCommitInputs(inputs) ==
    /\ LenOf(inputs.x) = N /\ LenOf(inputs.y) = N
    /\ LenOf(inputs.randomness) = N
    /\ inputs.shape[1] > 0 /\ inputs.shape[2] > 0
    /\ \A i \in DOMAIN inputs.x :
          inputs.x[i] * inputs.x[i] > inputs.shape[1] * inputs.shape[1]
    /\ IsNumeric(inputs.points[1]) /\ IsNumeric(inputs.points[2])

\* C13: for every valid input the commitment that create_commitment /
\* create_lattice_commitment returns is accepted by verify_commitment /
\* verify_lattice_commitment with no challenge and under each of the
\* challenges 00, 01, 10, 11.
C13_CommitmentCompleteness ==
    (commit.pc = "verified" /\ commit.tampered = "none"
        /\ ValidCommitInputs(commit.inputs)) =>
        commit.result = "True"

\* C14: changing one output field of an accepted commitment (the binding
\* hash, a coefficient of commitment_poly, an entry of the error vector)
\* makes verify_commitment return false.
C14_TamperDetected ==
    (commit.pc = "verified" /\ commit.entry = "verify_commitment"
        /\ commit.tampered \in {"commitment", "commitment_poly", "error"}
        /\ VerifierSays("verify_commitment", commit.created,
                        commit.challenge) = "True") =>
        commit.result = "False"

\* C15: create_commitment called twice on the same x, y, randomness, a, b
\* and points returns the same commitment polynomial, the same binding
\* hash and the same error vector.
C15_CreateDeterministic ==
    (commit.pc = "repeated" /\ commit.second # ValueError) =>
        /\ commit.second.commitment_poly = commit.data.commitment_poly
        /\ commit.second.commitment = commit.data.commitment
        /\ commit.second.error = commit.data.error

UndisclosedFields ==
    {"a", "b", "slope", "intercept", "private_key_point",
     "public_key_point", "horiz_hyperbola", "vert_hyperbola"}

\* C16: with no challenge, or challenge 00 or 11, the verifier's result is
\* the same whatever a, b, slope, intercept, the key points and the two
\* hyperbola sub-commitments hold: changing one of them leaves the result
\* what it was for the commitment as created.
C16_SelectiveDisclosure ==
    (commit.pc = "verified" /\ commit.challenge \in {"None", "00", "11"}
        /\ commit.tampered \in UndisclosedFields) =>
        commit.result =
            VerifierSays(commit.entry, commit.created, commit.challenge)

\* C16 happens: a was set to 0 and the commitment is accepted under 00,
\* while under 01 the same dict is refused.
C16_ShapeIgnored ==
    /\ commit.pc = "verified"
    /\ commit.challenge = "00"
    /\ commit.tampered = "a"
    /\ commit.data.a = 0
    /\ commit.result = "True"
    /\ LatticeVerdict(TRUE, commit.data, "01") = "False"

\* What the stored line gives for a point, and the coordinate it is
\* compared with.
LineValue(cd, point) ==
    IF cd.slope.inf THEN cd.intercept
    ELSE cd.slope.value * point[1] + cd.intercept

OnLineCoordinate(cd, point) == IF cd.slope.inf THEN point[1] ELSE point[2]

Deviation(cd, point) == Abs(OnLineCoordinate(cd, point) - LineValue(cd, point))

KeyPoints(cd) == {cd.private_key_point, cd.public_key_point}

\* C17: for challenge 01 or 10 the verifier returns false whenever a key
\* point is off the stored line by more than 1e-6 (here: by a thousandth or
\* more), even when the hash binding and the hyperbola equation hold.
C17_OffLineRejected ==
    (commit.pc = "verified" /\ commit.challenge \in {"01", "10"}
        /\ \A p \in KeyPoints(commit.data) : IsNumeric(p)) =>
        ((\E p \in KeyPoints(commit.data) : Deviation(commit.data, p) > 0)
         => commit.result = "False")

\* ------------------------------------------------------------------------
\* challenge/four_challenges.py, driven as test_security_properties.py
\* drives it
\* ------------------------------------------------------------------------
KeyError == [raised |-> "KeyError"]

\* public_params: the modulus n and, in some, the public value v
PublicParamChoices == { [n |-> 23, v |-> 4], [n |-> 23], [n |-> 32, v |-> 4] }

\* random.randint(2, n-2), random.randint(1, n-1), random.randint(2, n//4)
SecretDraws(n) == {2, n - 2}
CentreDraws(n) == {1, n - 1}
AxisDraws(n) == {2, n \div 4}

\* public_params.get('v', random.randint(2, n-2))
PublicValueDraws(pp) == IF Has(pp, "v") THEN {pp.v} ELSE SecretDraws(pp.n)

\* pow(y, 2, n)
PowMod2(y, n) == (y * y) % n

Max(u, v) == IF u >= v THEN u ELSE v
Min(u, v) == IF u <= v THEN u ELSE v

\* The largest m with m * m * den <= num
FloorRoot(num, den) ==
    CHOOSE m \in 0..num : m * m * den <= num /\ (m + 1) * (m + 1) * den > num

\* int(round(math.sqrt(num / den) + shift)) for an integer shift: the
\* nearest integer, either neighbour where the root lies half way.
RoundedRoot(num, den, shift) ==
    LET m == FloorRoot(num, den)
        half == (2 * m + 1) * (2 * m + 1) * den
    IN  IF 4 * num > half THEN {m + 1 + shift}
        ELSE IF 4 * num = half THEN {m + shift, m + 1 + shift}
        ELSE {m + shift}

CommitmentDict(x, y, h, k, a, b, r, s, v) ==
    [x |-> x, y |-> y, h |-> h, k |-> k, a |-> a, b |-> b, r |-> r,
     s |-> s, v |-> v]

\* What generate_commitment can return.
generate_commitment(pp) ==
    { CommitmentDict(PowMod2(s, pp.n), s, h, k, a, b, r, s, v) :
        s \in SecretDraws(pp.n), r \in SecretDraws(pp.n),
        h \in CentreDraws(pp.n), k \in CentreDraws(pp.n),
        a \in AxisDraws(pp.n), b \in AxisDraws(pp.n),
        v \in PublicValueDraws(pp) }

\* x = random.randint(lower, upper) with lower = h + a + 1 cut to
\* upper = n - 1; the draws explored are the ends and every fourth value.
RangeDraws(lower, upper) ==
    { x \in Min(lower, upper)..upper :
        x = Min(lower, upper) \/ x = upper \/ (x - lower) % 4 = 0 }

\* The dicts the 01 branch can return for one draw of h, k, a, b, x, r, s,
\* v; math.sqrt raises ValueError below zero.
HorizontalCommitments(pp, h, k, a, b, x, r, s, v) ==
    IF (x - h) * (x - h) < a * a THEN {ValueError}
    ELSE { CommitmentDict(x, y, h, k, a, b, r, s, v) :
             y \in RoundedRoot(((x - h) * (x - h) - a * a) * b * b, a * a, k) }

VerticalCommitments(pp, h, k, a, b, y, r, s, v) ==
    IF (y - k) * (y - k) < b * b THEN {ValueError}
    ELSE { CommitmentDict(x, y, h, k, a, b, r, s, v) :
             x \in RoundedRoot(((y - k) * (y - k) - b * b) * a * a, b * b, h) }

\* What generate_commitment_for_challenge can return or raise.
generate_commitment_for_challenge(challenge, pp) ==
    IF challenge \notin Branches THEN {ValueError}
    ELSE UNION {
      CASE challenge = "00" ->
             { CommitmentDict(PowMod2(y, pp.n), y, h, k, a, b, r, s, v) :
                 y \in SecretDraws(pp.n) }
        [] challenge = "01" ->
             UNION { HorizontalCommitments(pp, h, k, a, b, x, r, s, v) :
                       x \in RangeDraws(h + a + 1, pp.n - 1) }
        [] challenge = "10" ->
             UNION { VerticalCommitments(pp, h, k, a, b, y, r, s, v) :
                       y \in RangeDraws(k + b + 1, pp.n - 1) }
        [] challenge = "11" ->
             { CommitmentDict(x, (r * s) % pp.n, h, k, a, b, r, s, v) :
                 x \in SecretDraws(pp.n) } :
        h \in CentreDraws(pp.n), k \in CentreDraws(pp.n),
        a \in AxisDraws(pp.n), b \in AxisDraws(pp.n),
        r \in SecretDraws(pp.n), s \in SecretDraws(pp.n),
        v \in PublicValueDraws(pp) }

respond_to_challenge_leaky(challenge, commitment, pp) ==
    CASE challenge = "00" -> [y |-> commitment.y]
      [] challenge = "01" ->
           [x |-> commitment.x, y |-> commitment.y, h |-> commitment.h,
            k |-> commitment.k, a |-> commitment.a, b |-> commitment.b]
      [] challenge = "10" ->
           [y |-> commitment.y, h |-> commitment.h, k |-> commitment.k,
            a |-> commitment.a, b |-> commitment.b]
      [] challenge = "11" ->
           [y |-> (commitment.r * commitment.s) % pp.n, x |-> commitment.x,
            v |-> commitment.v]
      [] OTHER -> ValueError

respond_to_challenge(challenge, commitment, pp) ==
    CASE challenge = "00" -> [y |-> commitment.y]
      [] challenge = "01" ->
           [x |-> commitment.x, h |-> commitment.h, k |-> commitment.k,
            a |-> commitment.a, b |-> commitment.b]
      [] challenge = "10" ->
           [y |-> commitment.y, h |-> commitment.h, k |-> commitment.k,
            a |-> commitment.a, b |-> commitment.b]
      [] challenge = "11" ->
           [y |-> (commitment.r * commitment.s) % pp.n, x |-> commitment.x,
            v |-> commitment.v]
      [] OTHER -> ValueError

\* math.isclose(num / den, 1.0, rel_tol=1e-9)
IsCloseToOne(num, den) ==
    Abs(num - den) <= Max(Abs(num), den) \div 1000000000

HasAll(d, keys) == \A key \in keys : Has(d, key)

\* "True", "False", or the exception that leaves the call
verify_response(challenge, commitment, response, pp) ==
    CASE challenge = "00" ->
           IF ~Has(response, "y") THEN "KeyError"
           ELSE IF PowMod2(response.y, pp.n) = commitment.x % pp.n
                THEN "True" ELSE "False"
      [] challenge = "01" ->
           IF ~HasAll(response, {"x", "h", "k", "a", "b"}) THEN "KeyError"
           ELSE IF IsCloseToOne(
                     (response.x - response.h) * (response.x - response.h)
                        * response.b * response.b
                     - (commitment.y - response.k) * (commitment.y - response.k)
                        * response.a * response.a,
                     response.a * response.a * response.b * response.b)
                THEN "True" ELSE "False"
      [] challenge = "10" ->
           IF ~HasAll(response, {"y", "h", "k", "a", "b"}) THEN "KeyError"
           ELSE IF IsCloseToOne(
                     (response.y - response.k) * (response.y - response.k)
                        * response.a * response.a
                     - (commitment.x - response.h) * (commitment.x - response.h)
                        * response.b * response.b,
                     response.a * response.a * response.b * response.b)
                THEN "True" ELSE "False"
      [] challenge = "11" ->
           IF ~HasAll(response, {"y", "x", "v"}) THEN "KeyError"
           ELSE IF PowMod2(response.y, pp.n) = (response.x * response.v) % pp.n
                THEN "True" ELSE "False"
      [] OTHER -> "ValueError"

ChalInit ==
    /\ ExtIdle
    /\ NttIdle
    /\ ProtoInit
    /\ trapdoor = NoCall
    /\ kg_params = ModuleParams
    /\ commit = NoCall
    /\ \E pp \in PublicParamChoices :
         chal = [pc |-> "setup", public_params |-> pp, made_for |-> "none",
                 commitment |-> NoDict, answered |-> "none",
                 forged |-> FALSE, response |-> NoDict,
                 challenge |-> "none", result |-> "none"]

\* commitment = generate_commitment(secret_data, public_params)
GenerateCommitment ==
    /\ chal.pc = "setup"
    /\ \E c \in generate_commitment(chal.public_params) :
         chal' = [chal EXCEPT !.pc = "committed", !.made_for = "any",
                              !.commitment = c]
    /\ UNCHANGED ntt_vars
    /\ UNCHANGED proto_vars
    /\ UNCHANGED <<trapdoor, kg_params, commit>>
    /\ UNCHANGED ext_vars

\* commitment = generate_commitment_for_challenge(challenge, public_params)
GenerateCommitmentForChallenge ==
    /\ chal.pc = "setup"
    /\ \E challenge \in Branches \cup {"22"} :
       \E c \in generate_commitment_for_challenge(challenge,
                                                  chal.public_params) :
         IF c = ValueError
         THEN chal' = [chal EXCEPT !.pc = "raised", !.made_for = challenge]
         ELSE chal' = [chal EXCEPT !.pc = "committed",
                                   !.made_for = challenge,
                                   !.commitment = c]
    /\ UNCHANGED ntt_vars
    /\ UNCHANGED proto_vars
    /\ UNCHANGED <<trapdoor, kg_params, commit>>
    /\ UNCHANGED ext_vars

\* A commitment made for one challenge is answered for that challenge; one
\* made by generate_commitment is answered for any of the four.
AnswerChoices(made_for) ==
    IF made_for = "any" THEN Branches \cup {"22", ""} ELSE {made_for}

RespondToChallenge ==
    /\ chal.pc = "committed"
    /\ \E challenge \in AnswerChoices(chal.made_for) :
       \E response \in {respond_to_challenge(challenge, chal.commitment,
                                              chal.public_params)} :
         IF response = ValueError
         THEN chal' = [chal EXCEPT !.pc = "raised", !.answered = challenge,
                                   !.result = "ValueError"]
         ELSE chal' = [chal EXCEPT !.pc = "responded",
                                   !.answered = challenge,
                                   !.response = response]
    /\ UNCHANGED ntt_vars
    /\ UNCHANGED proto_vars
    /\ UNCHANGED <<trapdoor, kg_params, commit>>
    /\ UNCHANGED ext_vars

\* random.randint(1, 1000) for every key of the honest response
ForgedValues == {1, 2, 4}

ForgedResponses(challenge) ==
    CASE challenge = "00" -> [y : ForgedValues]
      [] challenge = "01" ->
           [x : ForgedValues, h : ForgedValues, k : ForgedValues,
            a : ForgedValues, b : ForgedValues]
      [] challenge = "10" ->
           [y : ForgedValues, h : ForgedValues, k : ForgedValues,
            a : ForgedValues, b : ForgedValues]
      [] challenge = "11" ->
           [y : ForgedValues, x : ForgedValues, v : ForgedValues]

\* forged_response = {k: random.randint(1, 1000) for k in
\* respond_to_challenge(ch, commitment, ...).keys()}
ForgeResponse ==
    /\ chal.pc = "committed"
    /\ chal.made_for = "any"
    /\ \E challenge \in Branches :
       \E forged \in ForgedResponses(challenge) :
         chal' = [chal EXCEPT !.pc = "responded", !.answered = challenge,
                              !.forged = TRUE, !.response = forged]
    /\ UNCHANGED ntt_vars
    /\ UNCHANGED proto_vars
    /\ UNCHANGED <<trapdoor, kg_params, commit>>
    /\ UNCHANGED ext_vars

\* An honest answer to a commitment of generate_commitment is verified
\* under each of the four challenges, every other response under the
\* challenge it answers.
VerifyChoices(made_for, forged, answered) ==
    IF made_for = "any" /\ ~forged THEN Branches ELSE {answered}

VerifyResponse ==
    /\ chal.pc = "responded"
    /\ \E challenge \in VerifyChoices(chal.made_for, chal.forged,
                                      chal.answered) :
         chal' = [chal EXCEPT
                     !.pc = "verified",
                     !.challenge = challenge,
                     !.result = verify_response(challenge, chal.commitment,
                                   chal.response, chal.public_params)]
    /\ UNCHANGED ntt_vars
    /\ UNCHANGED proto_vars
    /\ UNCHANGED <<trapdoor, kg_params, commit>>
    /\ UNCHANGED ext_vars

ChalNext ==
    \/ GenerateCommitment
    \/ GenerateCommitmentForChallenge
    \/ RespondToChallenge
    \/ ForgeResponse
    \/ VerifyResponse

SpecChallenge == ChalInit /\ [][ChalNext]_vars

\* C18: for every challenge c and modulus n, the response that
\* respond_to_challenge(c, ...) computes from a commitment of
\* generate_commitment_for_challenge(c, params) is accepted by
\* verify_response(c, ...).
C18_HonestBranchAccepted ==
    (chal.pc = "verified" /\ ~chal.forged /\ chal.made_for \in Branches
        /\ chal.answered = chal.made_for /\ chal.challenge = chal.made_for) =>
        chal.result = "True"

\* C19: for one commitment of generate_commitment and challenges c1 # c2,
\* verify_response(c2, commitment, respond_to_challenge(c1, ...)) returns
\* false or raises; it never returns true.
C19_CrossBranchRejected ==
    (chal.pc = "verified" /\ ~chal.forged /\ chal.made_for = "any"
        /\ chal.answered # chal.challenge) =>
        chal.result # "True"

\* C20: against a fixed commitment a forged response for a branch (fields
\* drawn at random, not the honest answer) is never accepted by
\* verify_response for that branch.
C20_ForgedResponseRejected ==
    (chal.pc = "verified" /\ chal.forged
        /\ chal.challenge = chal.answered
        /\ chal.response # respond_to_challenge(chal.answered,
                              chal.commitment, chal.public_params)) =>
        chal.result # "True"

\* The fields of the commitment a response repeats, by name.
Reveals(response, commitment, keys) ==
    /\ DOMAIN response = keys
    /\ \A key \in keys : response[key] = commitment[key]

\* C21: respond_to_challenge returns only y for 00, only x, h, k, a, b for
\* 01, only y, h, k, a, b for 10, and y = r*s mod n (never r or s) for 11;
\* the 01 response is the same for every y of the commitment and the 10
\* response for every x; any other challenge value raises ValueError.
C21_ExactDisclosure ==
    /\ (chal.pc = "responded" /\ ~chal.forged) =>
         /\ chal.answered \in Branches
         /\ chal.answered = "00" =>
              Reveals(chal.response, chal.commitment, {"y"})
         /\ chal.answered = "01" =>
              /\ Reveals(chal.response, chal.commitment,
                         {"x", "h", "k", "a", "b"})
              /\ \A y2 \in 0 .. chal.public_params.n :
                   respond_to_challenge("01",
                       [chal.commitment EXCEPT !.y = y2],
                       chal.public_params) = chal.response
         /\ chal.answered = "10" =>
              /\ Reveals(chal.response, chal.commitment,
                         {"y", "h", "k", "a", "b"})
              /\ \A x2 \in 0 .. chal.public_params.n :
                   respond_to_challenge("10",
                       [chal.commitment EXCEPT !.x = x2],
                       chal.public_params) = chal.response
         /\ chal.answered = "11" =>
              /\ chal.response.y = (chal.commitment.r * chal.commitment.s)
                                      % chal.public_params.n
              /\ DOMAIN chal.response \subseteq {"y", "x", "v"}
    /\ (chal.pc \in {"responded", "raised"} /\ chal.answered # "none"
          /\ chal.answered \notin Branches) =>
         (chal.pc = "raised" /\ chal.result = "ValueError")

\* C21 happens: challenge 01 was answered for a commitment whose y differs
\* from every revealed value.
C21_HorizontalAnswered ==
    /\ chal.pc = "responded"
    /\ ~chal.forged
    /\ chal.answered = "01"
    /\ chal.made_for = "any"
    /\ \A key \in DOMAIN chal.response :
          chal.response[key] # chal.commitment.y

\* Some entry of x is not outside the vertices: x^2 / a^2 <= 1.
InsideVertices(inputs) ==
    \E i \in DOMAIN inputs.x :
        inputs.x[i] * inputs.x[i] <= inputs.shape[1] * inputs.shape[1]

\* C22: for a, b > 0 and an x with some entry x^2/a^2 <= 1 (x = a
\* included) compute_hyperbola_points(x, a, b, is_horizontal=True) raises
\* ValueError, never a point, and the call that creates the commitment
\* raises ValueError as well.
C22_DomainErrorRaised ==
    (commit # NoCall /\ commit.pc # "input" /\ commit.inputs.shape[1] > 0
        /\ commit.inputs.shape[2] > 0 /\ InsideVertices(commit.inputs)) =>
        /\ compute_hyperbola_points(commit.inputs.x, commit.inputs.shape[1],
                                    commit.inputs.shape[2], TRUE) = ValueError
        /\ commit.pc = "raised"

\* C22 happens: a commitment was asked for with one entry of x at -a, the
\* others outside the vertices, and the call raised.
C22_VertexRefused ==
    /\ commit # NoCall
    /\ commit.pc = "raised"
    /\ commit.inputs.shape = <<12, 48>>
    /\ commit.inputs.x[N - 1] = -12
    /\ commit.inputs.x[0] = 20

\* C23: compute_hyperbola_points(x, a, b, is_horizontal=True) and
\* create_lattice_commitment(x, y, randomness, a, b, p1, p2) raise
\* ValueError when a is not positive.
C23_NonPositiveShapeRefused ==
    (commit # NoCall /\ commit.pc # "input"
        /\ commit.inputs.shape[1] <= 0) =>
        /\ compute_hyperbola_points(commit.inputs.x, commit.inputs.shape[1],
                                    commit.inputs.shape[2], TRUE) = ValueError
        /\ commit.pc = "raised"

\* C24: compute_line_equation(p1, p2) returns (infinity, p1.x) when
\* p1.x = p2.x; otherwise a slope and an intercept with
\* y = slope * x + intercept at p1 and at p2; a non-numeric coordinate
\* raises ValueError.  Read on the line a created commitment stores.
C24_LineThroughBothPoints ==
    (commit # NoCall /\ commit.pc # "input") =>
        LET p1 == commit.inputs.points[1]
            p2 == commit.inputs.points[2]
        IN  IF ~(IsNumeric(p1) /\ IsNumeric(p2))
            THEN commit.pc = "raised"
            ELSE commit.created # NoDict =>
                   IF p1[1] = p2[1]
                   THEN /\ commit.created.slope = InfSlope
                        /\ commit.created.intercept = p1[1]
                   ELSE /\ ~commit.created.slope.inf
                        /\ commit.created.slope.value * p1[1]
                              + commit.created.intercept = p1[2]
                        /\ commit.created.slope.value * p2[1]
                              + commit.created.intercept = p2[2]

\* C24 happens: the line through (1, 5) and (3, 1) was computed, slope -2
\* and intercept 7.
C24_FallingLine ==
    /\ commit # NoCall
    /\ commit.pc = "committed"
    /\ commit.inputs.points[1] = <<1000, 5000, "number">>
    /\ commit.inputs.points[2] = <<3000, 1000, "number">>
    /\ commit.created.slope = FiniteSlope(-2)
    /\ commit.created.intercept = 7000

\* C25: ntt and intt raise an error, and return nothing, whenever the
\* length of the input is not the ring degree N, for inputs shorter and
\* for inputs longer than N.
C25_WrongLengthRaises ==
    (ntt_pc # "input" /\ LenOf(poly) # N) => ntt_pc = "raised"

\* ------------------------------------------------------------------------
\* signing/sign.py: one call of sign_message, its arguments of any kind
\* ------------------------------------------------------------------------
\* What isinstance finds for the entries f, g, h, k of a private key
KeyKinds == [f |-> "list", g |-> "list", h |-> "int", k |-> "int"]

\* The exception the try block of sign_message raises on its way, "none"
\* when it reaches return signature.
SignFault(message_kind, private_key_, kinds, challenge_type, public_key_) ==
    IF message_kind # "str" \/ ~IsDict(private_key_) THEN "SigningError"
    ELSE IF \E key \in {"f", "g", "h", "k"} : ~Has(private_key_, key)
    THEN "SigningError"
    ELSE IF \E key \in {"f", "g"} :
               kinds[key] # "list" \/ LenOf(private_key_[key]) # N
    THEN "SigningError"
    ELSE IF \E key \in {"h", "k"} : kinds[key] # "int" THEN "SigningError"
    ELSE IF challenge_type \in {"00", "01", "10"} THEN "none"
    ELSE IF challenge_type = "11"
    THEN IF public_key_ = NoneArg THEN "SigningError"
         ELSE IF ~IsDict(public_key_) THEN "TypeError"
         ELSE IF ~Has(public_key_, "h_pub") THEN "SigningError"
         ELSE IF NttRaises(public_key_.h_pub) THEN "IndexError"
         ELSE "none"
    ELSE "SigningError"

\* sign_message without its except clauses
SignRaises_unwrapped(fault) == fault

\* except SigningError: raise;  except Exception: raise SigningError(...)
SignRaises(fault) ==
    IF fault = "SigningError" THEN fault
    ELSE IF fault # "none" THEN "SigningError"
    ELSE "none"

\* The key pair keygen returned, and the private keys that differ from it
\* in one entry.
SignKeyPair == CHOOSE frame \in ReturnedKeyPairs : TRUE

PrivateKeyChoices ==
    { [key |-> SignKeyPair.private_key, kinds |-> KeyKinds] }
    \cup { [key |-> Without(SignKeyPair.private_key, name),
            kinds |-> KeyKinds] : name \in {"f", "g", "h", "k"} }
    \cup { [key |-> SignKeyPair.private_key,
            kinds |-> [KeyKinds EXCEPT ![name] = "str"]] :
             name \in {"f", "g", "h", "k"} }
    \cup { [key |-> [SignKeyPair.private_key EXCEPT
                        ![name] = [i \in 0..(N - 2) |-> 0]],
            kinds |-> KeyKinds] : name \in {"f", "g"} }
    \cup { [key |-> NotADict, kinds |-> KeyKinds] }

PublicKeyChoices ==
    { SignKeyPair.public_key, NoneArg, NotADict,
      Without(SignKeyPair.public_key, "h_pub"),
      [SignKeyPair.public_key EXCEPT !.h_pub = [i \in 0..(N - 2) |-> 1]] }

ChallengeTypeChoices == Branches \cup {"", "22"}

SignCallChoices ==
    { [pc |-> "call", message |-> "Hello, Hypermaze Beast Mode!",
       message_kind |-> mk, private_key |-> pk.key, kinds |-> pk.kinds,
       challenge_type |-> c, public_key |-> pub,
       raised |-> "none", signature |-> NoDict] :
        mk \in {"str", "bytes"}, pk \in PrivateKeyChoices,
        c \in ChallengeTypeChoices, pub \in PublicKeyChoices }

SignCallInit ==
    /\ NttIdle
    /\ ProtoInit
    /\ LibIdle
    /\ security = NoCall
    /\ proving = NoCall
    /\ signing \in SignCallChoices

\* sign_message(message, private_key, challenge_type, public_key)
SignCall ==
    /\ signing.pc = "call"
    /\ \E escapes \in { SignRaises(SignFault(signing.message_kind,
                           signing.private_key, signing.kinds,
                           signing.challenge_type, signing.public_key)) } :
         IF escapes # "none"
         THEN signing' = [signing EXCEPT !.pc = "raised", !.raised = escapes]
         ELSE \E sig \in sign_message(signing.message, signing.private_key,
                             signing.challenge_type, signing.public_key) :
                signing' = [signing EXCEPT !.pc = "returned",
                                           !.signature = sig]
    /\ UNCHANGED ntt_vars
    /\ UNCHANGED proto_vars
    /\ UNCHANGED lib_vars
    /\ UNCHANGED <<security, proving>>

SpecSigning == SignCallInit /\ [][SignCall]_vars

\* The calls the claim lists.
SigningMustFail(call) ==
    \/ call.challenge_type \notin Branches
    \/ ~IsDict(call.private_key)
    \/ \E key \in {"f", "g", "h", "k"} : ~Has(call.private_key, key)
    \/ \E key \in {"f", "g"} :
          call.kinds[key] # "list" \/ LenOf(call.private_key[key]) # N
    \/ \E key \in {"h", "k"} : call.kinds[key] # "int"
    \/ /\ call.challenge_type = "11"
       /\ \/ call.public_key = NoneArg
          \/ ~Has(call.public_key, "h_pub")

\* C26: sign_message raises SigningError and returns no signature when
\* challenge_type is not 00/01/10/11, when the private key lacks f, g, h or
\* k, when f or g is not a list of length N, when h or k is not an integer,
\* or for branch 11 when the public key is missing or lacks h_pub; and
\* whatever it raises is a SigningError.
C26_SigningFailuresTyped ==
    (signing # NoCall /\ signing.pc # "call") =>
        /\ SigningMustFail(signing) =>
              /\ signing.pc = "raised"
              /\ signing.signature = NoDict
        /\ signing.pc = "raised" => signing.raised = "SigningError"

\* C26 happens: for branch 11 the public key's h_pub was one entry short,
\* ntt raised IndexError inside sign_message, and the call raised.
C26_InnerErrorWrapped ==
    /\ signing # NoCall
    /\ signing.pc = "raised"
    /\ signing.challenge_type = "11"
    /\ signing.message_kind = "str"
    /\ signing.kinds = KeyKinds
    /\ signing.private_key = SignKeyPair.private_key
    /\ IsDict(signing.public_key)
    /\ Has(signing.public_key, "h_pub")
    /\ LenOf(signing.public_key.h_pub) = N - 1

\* ------------------------------------------------------------------------
\* security/protocol_security.py: ProtocolSecurity.check_parallel_session
\* ------------------------------------------------------------------------
max_proof_age == 300
max_parallel_sessions == 10

\* Session ids handed out and seconds of clock the model follows
MaxSessionIds == 12
MaxClock == 600

\* the str of the i-th session
SessionId(i) == ToString(i)

\* {sid: ts for sid, ts in self.active_sessions.items()
\*  if current_time - ts < self.max_proof_age}
Unexpired(active_sessions, current_time) ==
    [sid \in { s \in DOMAIN active_sessions :
                  current_time - active_sessions[s] < max_proof_age } |->
        active_sessions[sid]]

\* self.active_sessions[session_id] = current_time
SetItem(d, key, value) ==
    [x \in (DOMAIN d) \cup {key} |-> IF x = key THEN value ELSE d[x]]

\* check_parallel_session with  >  for  >=  in the test of the limit
check_parallel_session_over(active_sessions, session_id, current_time) ==
    LET kept == Unexpired(active_sessions, current_time)
    IN  IF Cardinality(DOMAIN kept) > max_parallel_sessions
        THEN [active_sessions |-> kept, returned |-> FALSE]
        ELSE [active_sessions |-> SetItem(kept, session_id, current_time),
              returned |-> TRUE]

\* check_parallel_session with the session recorded before the limit is
\* tested
check_parallel_session_eager(active_sessions, session_id, current_time) ==
    LET kept == Unexpired(active_sessions, current_time)
    IN  IF Cardinality(DOMAIN kept) >= max_parallel_sessions
        THEN [active_sessions |->
                 IF session_id \in DOMAIN kept
                 THEN SetItem(kept, session_id, current_time) ELSE kept,
              returned |-> FALSE]
        ELSE [active_sessions |-> SetItem(kept, session_id, current_time),
              returned |-> TRUE]

\* One call: the table it leaves and what it returns
check_parallel_session(active_sessions, session_id, current_time) ==
    LET kept == Unexpired(active_sessions, current_time)
    IN  IF Cardinality(DOMAIN kept) >= max_parallel_sessions
        THEN [active_sessions |-> kept, returned |-> FALSE]
        ELSE [active_sessions |-> SetItem(kept, session_id, current_time),
              returned |-> TRUE]

NoSessions == [sid \in {} |-> 0]

\* ProtocolSecurity(): no session yet.  issued counts the ids handed out;
\* before, session_id and current_time keep the table and the arguments of
\* the last call.
SecurityInit ==
    /\ NttIdle
    /\ ProtoInit
    /\ LibIdle
    /\ signing = NoCall
    /\ proving = NoCall
    /\ security = [active_sessions |-> NoSessions, time |-> 0, issued |-> 0,
                   calls |-> 0, before |-> NoSessions, session_id |-> "",
                   current_time |-> 0, returned |-> TRUE]

\* The ids a caller may come with: a new one, or the first or the tenth
\* again.
SessionIdChoices(issued) ==
    (IF issued < MaxSessionIds THEN {SessionId(issued + 1)} ELSE {})
    \cup { SessionId(i) : i \in {1, max_parallel_sessions} \cap (1..issued) }

CheckParallelSession ==
    /\ security # NoCall
    /\ \E session_id \in SessionIdChoices(security.issued) :
       \E out \in { check_parallel_session(security.active_sessions,
                                           session_id, security.time) } :
         security' = [security EXCEPT
                         !.active_sessions = out.active_sessions,
                         !.returned = out.returned,
                         !.before = security.active_sessions,
                         !.session_id = session_id,
                         !.current_time = security.time,
                         !.calls = 1,
                         !.issued = IF session_id = SessionId(@ + 1)
                                    THEN @ + 1 ELSE @]
    /\ UNCHANGED ntt_vars
    /\ UNCHANGED proto_vars
    /\ UNCHANGED lib_vars
    /\ UNCHANGED <<signing, proving>>

\* time.time() moves on between two calls
ClockSteps == {150}

TimePasses ==
    /\ security # NoCall
    /\ \E d \in ClockSteps :
         /\ security.time + d <= MaxClock
         /\ security' = [security EXCEPT !.time = @ + d]
    /\ UNCHANGED ntt_vars
    /\ UNCHANGED proto_vars
    /\ UNCHANGED lib_vars
    /\ UNCHANGED <<signing, proving>>

SecurityNext == CheckParallelSession \/ TimePasses

SpecSecurity == SecurityInit /\ [][SecurityNext]_vars

\* The entries of the table before the last call that had not reached
\* max_proof_age when it was made.
StillActive ==
    { sid \in DOMAIN security.before :
         security.current_time - security.before[sid] < max_proof_age }

\* C27: after any sequence of check_parallel_session calls active_sessions
\* holds at most max_parallel_sessions entries, a call removes an entry
\* only when its age has reached max_proof_age, and a call returns false
\* exactly when 10 or more sessions are still active after pruning.
C27_SessionTableBounded ==
    security # NoCall =>
        /\ Cardinality(DOMAIN security.active_sessions)
              <= max_parallel_sessions
        /\ security.calls > 0 =>
              /\ StillActive \subseteq DOMAIN security.active_sessions
              /\ ~security.returned <=>
                    Cardinality(StillActive) >= max_parallel_sessions

\* C27 happens: an eleventh session was refused while ten were active,
\* and after its entries had aged out a call ended with a table that had
\* dropped them.
C27_FullThenPruned ==
    /\ security # NoCall
    /\ security.calls > 0
    /\ Cardinality(DOMAIN security.before) = max_parallel_sessions
    /\ StillActive = {}
    /\ security.returned
    /\ DOMAIN security.active_sessions = {security.session_id}

\* What the last call leaves of the table it found, the caller's own entry
\* apart.
OthersKept ==
    \A sid \in StillActive \ {security.session_id} :
        /\ sid \in DOMAIN security.active_sessions
        /\ security.active_sessions[sid] = security.before[sid]

\* C30: a rejected call neither adds nor refreshes session_id, also when
\* that id is already active; an accepted call sets
\* active_sessions[session_id] to the current time, for a new id and for an
\* active one; no other unexpired entry is changed by either outcome.
C30_CallEffect ==
    (security # NoCall /\ security.calls > 0) =>
        /\ OthersKept
        /\ security.returned =>
              /\ security.session_id \in DOMAIN security.active_sessions
              /\ security.active_sessions[security.session_id]
                    = security.current_time
        /\ ~security.returned =>
              IF security.session_id \in StillActive
              THEN /\ security.session_id \in DOMAIN security.active_sessions
                   /\ security.active_sessions[security.session_id]
                         = security.before[security.session_id]
              ELSE security.session_id \notin DOMAIN security.active_sessions

\* C30 happens: with the table full, the first session came again later
\* and was refused, its timestamp left as it was.
C30_ActiveIdRefused ==
    /\ security # NoCall
    /\ security.calls > 0
    /\ ~security.returned
    /\ security.session_id \in StillActive
    /\ security.before[security.session_id] < security.current_time


\* ------------------------------------------------------------------------
\* Message binding (Spec)
\* ------------------------------------------------------------------------
\* the signature sig with only its message_hash replaced by sha256(message)
Rebound(sig, message) ==
    [sig EXCEPT !["message_hash"] = sha256_hexdigest(message)]

\* the private key with other polynomials f and g in it
OtherSecret(private_key_) ==
    [private_key_ EXCEPT !["f"] = [i \in 0..(N - 1) |-> -private_key_.g[i]],
                         !["g"] = [i \in 0..(N - 1) |-> -private_key_.f[i]]]

\* C28: message binding rests only on the message_hash field: a signature
\* verify_signature accepted for (m, pk) is accepted for (m', pk) once its
\* message_hash alone is replaced by sha256(m'), for every other message
\* m'; and a signature sign_message produced for m, so changed, is one
\* sign_message produces for m' under a private key with other f and g, so no
\* other field depends on the message or on f and g.
C28_BoundByHashOnly ==
    /\ (pc = "verified" /\ result = "True") =>
          \A m2 \in VerifyMessageChoices :
             m2.type = "bytes" =>
                verify_signature(m2, Rebound(signature, m2), vpublic_key)
                    = "True"
    /\ (pc = "signed" /\ honest) =>
          \A m2 \in Messages \ {signed_message} :
             Rebound(signature, Encode(m2))
                \in sign_message(m2, OtherSecret(private_key),
                                 signature.challenge_type, public_key)

\* C28 witness: an honest signature whose message_hash was replaced by the
\* hash of the other message was accepted for that other message.
C28_ReboundAccepted ==
    /\ pc = "verified"
    /\ result = "True"
    /\ vmessage.type = "bytes"
    /\ vmessage # Encode(signed_message)
    /\ signed_message \in Messages
    /\ signature.challenge_type \in {"01", "10"}
    /\ signature.message_hash = sha256_hexdigest(vmessage)
    /\ \E sig \in sign_message(signed_message, private_key,
                               signature.challenge_type, public_key) :
          signature = Rebound(sig, vmessage)


\* ------------------------------------------------------------------------
\* verification/verify.py: verify_proof
\* ------------------------------------------------------------------------
\* dict.get(key, default)
GetOr(d, key, default) == IF Has(d, key) THEN d[key] ELSE default

\* np.allclose(num / den, 1.0, atol=1e-6) with the default rtol=1e-5
AllCloseToOne(num, den) ==
    LET gap == Abs(num - den)
    IN  gap * 1000000 <= 11 * Abs(den)

\* the steps for challenge types 01 and 10, before the transforms: "Pass",
\* "False", or "Exception" where a statement raises
HyperbolaProofSteps(sig) ==
    IF ~Has(sig, "x") \/ ~Has(sig, "y") THEN "False"
    ELSE LET a == GetOr(sig, "a", 1)
             b == GetOr(sig, "b", 1)
             num == sig.x * sig.x * b * b - sig.y * sig.y * a * a
             den == a * a * b * b
         IN  IF sig.challenge_type = "01" /\ (a = 0 \/ b = 0)
             THEN "Exception"
             ELSE IF sig.challenge_type = "01" /\ ~AllCloseToOne(num, den)
             THEN "False"
             ELSE IF ~Has(sig, "commitment") THEN "False"
             ELSE IF ~Has(sig, "intersection_point") THEN "False"
             ELSE "Pass"

\* Steps 10 to 12: intt of the slot-wise product of ntt(s) and ntt(h)
ProofProduct(s, h, challenge_type) ==
    LET s_ntt == ntt(s)
        h_ntt == ntt(h)
        product == Stored([i \in 0..(N - 1) |-> (s_ntt[i] * h_ntt[i]) % q])
    IN  intt(product, challenge_type)

\* Step 13: all(abs(x) <= bound for x in result), the bound by branch
CoefficientsWithin(result_, challenge_type) ==
    \A i \in DOMAIN result_ : Abs(result_[i]) <= BranchBound(challenge_type)

\* The body of the try: "True", "False", or "Exception"
ProofBody(message, sig, pk) ==
    IF message.type # "bytes" THEN "False"
    ELSE IF ~IsDict(sig) THEN "False"
    ELSE IF ~IsDict(pk) THEN "False"
    ELSE IF ~({"s", "challenge_type", "message_hash"} \subseteq DOMAIN sig)
    THEN "False"
    ELSE IF ~Has(pk, "h_pub") THEN "False"
    ELSE IF sha256_hexdigest(message) # sig.message_hash THEN "False"
    ELSE IF /\ sig.challenge_type \in {"01", "10"}
            /\ HyperbolaProofSteps(sig) # "Pass"
    THEN HyperbolaProofSteps(sig)
    ELSE IF NttRaises(sig.s) \/ NttRaises(pk.h_pub) THEN "Exception"
    ELSE IF CoefficientsWithin(
               ProofProduct(sig.s, pk.h_pub, sig.challenge_type),
               sig.challenge_type)
    THEN "True" ELSE "False"

\* except Exception: return False
verify_proof(message, sig, pk) ==
    IF ProofBody(message, sig, pk) = "Exception" THEN "False"
    ELSE ProofBody(message, sig, pk)

\* the lists handed over as s
ProofSChoices ==
    { Ramp,
      [i \in 0..(N - 1) |-> ShortVectorThreshold],
      [i \in 0..(N - 1) |-> -(i + 1)],
      SmallPoly(1, -1),
      [i \in 0..(N - 2) |-> 1],
      [i \in 0..N |-> i] }

\* the extra fields of a 01 or 10 signature: none, a point on the
\* hyperbola with a = b = 1, a point off it, a zero shape parameter
HyperbolaFieldChoices ==
    { [x |-> 1, y |-> 0, commitment |-> 0, intersection_point |-> 0],
      [x |-> 2, y |-> 0, commitment |-> 0, intersection_point |-> 0],
      [x |-> 1, y |-> 0, a |-> 0, commitment |-> 0, intersection_point |-> 0],
      [x |-> 1, y |-> 0, commitment |-> 0],
      [x |-> 1, commitment |-> 0, intersection_point |-> 0] }

\* base extended by the fields of more
WithFields(base, more) ==
    [k \in (DOMAIN base) \cup (DOMAIN more) |->
        IF k \in DOMAIN more THEN more[k] ELSE base[k]]

ProofSignatureChoices ==
    LET plain == { [challenge_type |-> c, message_hash |-> mh, s |-> s] :
                     c \in Branches \cup {"22"}, mh \in HashChoices,
                     s \in ProofSChoices }
    IN  plain
          \cup { WithFields(sig, more) :
                   sig \in { p \in plain : p.challenge_type \in {"01", "10"} },
                   more \in HyperbolaFieldChoices }
          \cup { Without(sig, "message_hash") :
                   sig \in { p \in plain : p.s = Ramp } }
          \cup { NotADict }

ProofKeyChoices(pk) ==
    VerifyKeyChoices(pk) \cup { [pk EXCEPT !["h_pub"] = EmptyList] }

ProofInit ==
    /\ NttIdle
    /\ ProtoInit
    /\ LibIdle
    /\ signing = NoCall
    /\ security = NoCall
    /\ \E m \in VerifyMessageChoices, sig \in ProofSignatureChoices,
          pk \in ProofKeyChoices(SignKeyPair.public_key) :
         proving = [pc |-> "call", message |-> m, signature |-> sig,
                  public_key |-> pk, returned |-> "none"]

\* verify_proof(message, signature, public_key)
VerifyProof ==
    /\ proving.pc = "call"
    /\ proving' = [proving EXCEPT
                   !.pc = "returned",
                   !.returned = verify_proof(proving.message,
                                             proving.signature,
                                             proving.public_key)]
    /\ UNCHANGED ntt_vars
    /\ UNCHANGED proto_vars
    /\ UNCHANGED lib_vars
    /\ UNCHANGED <<signing, security>>

SpecProof == ProofInit /\ [][VerifyProof]_vars

\* the call reached the transforms on a 00 or 11 signature: bytes message,
\* matching message_hash, s and h_pub lists of N integers
BoundTestReached(call) ==
    /\ call.message.type = "bytes"
    /\ IsDict(call.signature)
    /\ IsDict(call.public_key)
    /\ {"s", "challenge_type", "message_hash"} \subseteq DOMAIN call.signature
    /\ Has(call.public_key, "h_pub")
    /\ call.signature.challenge_type \in {"00", "11"}
    /\ call.signature.message_hash = sha256_hexdigest(call.message)
    /\ LenOf(call.signature.s) = N
    /\ LenOf(call.public_key.h_pub) = N

\* C29: in verify_proof the coefficient-bound check cannot fail: for
\* challenge types 00 and 11, a call whose message_hash matches the message
\* and whose s and h_pub are lists of N integers returns true whatever s
\* holds, every coefficient intt returned being within the branch bound
\* the check then tests.
C29_BoundCheckVacuous ==
    (/\ proving # NoCall
     /\ proving.pc = "returned"
     /\ BoundTestReached(proving)) =>
        /\ proving.returned = "True"
        /\ CoefficientsWithin(
              ProofProduct(proving.signature.s, proving.public_key.h_pub,
                           proving.signature.challenge_type),
              proving.signature.challenge_type)

\* C29 witness: a 00 signature whose s holds 1000000 at every index was
\* accepted, though the product before the final reduction of intt has a
\* coefficient above the bound.
C29_LargeVectorAccepted ==
    /\ proving # NoCall
    /\ proving.pc = "returned"
    /\ BoundTestReached(proving)
    /\ proving.signature.challenge_type = "00"
    /\ proving.signature.s = [i \in 0..(N - 1) |-> ShortVectorThreshold]
    /\ proving.returned = "True"
    /\ \E i \in 0..(N - 1) :
          intt_unreduced([j \in 0..(N - 1) |->
              (ntt(proving.signature.s)[j]
                 * ntt(proving.public_key.h_pub)[j]) % q])[i] > 1

====
